---- MODULE Spec2Model ----
(***************************************************************************)
(* Call-session orchestration of the intake agent: the dispatch-time       *)
(* metadata parse, the enrichment fan-out, the instruction compilation,    *)
(* the tracing span, the voice session and the shutdown hook of            *)
(* src/src/calling_agent.py, with the helpers of src/src/db_utils.py and   *)
(* src/src/prompts.py it calls.                                            *)
(***************************************************************************)
EXTENDS Integers, Sequences, FiniteSets, TLC

(***************************************************************************)
(* Bounds of the model.                                                    *)
(***************************************************************************)
\* longest conversation history observed before the disconnect
MaxTurns == 1
\* most save_transcript calls made on one intakes table
MaxPersists == 3
\* most questions of a template, most move_to_next_question calls and most
\* add_response calls on one ConversationState
MaxQuestions == 3
MaxMoves == 5
MaxResponses == 3

(***************************************************************************)
(* Python values.  A scalar is a record [ty, s]: ty is the Python type     *)
(* ("absent" marks a key a mapping does not hold), s the text of a str or  *)
(* the decimal digits of an int.                                           *)
(***************************************************************************)
Absent == [ty |-> "absent", s |-> ""]
PyNone == [ty |-> "NoneType", s |-> ""]
PyStr(x) == [ty |-> "str", s |-> x]
PyInt(x) == [ty |-> "int", s |-> x]

\* bool(v) of a scalar: None, "" and 0 are falsy
ScalarTruthy(v) ==
    \/ v.ty = "str" /\ v.s # ""
    \/ v.ty = "int" /\ v.s # "0"

\* the keys of the metadata wire format (make_call's metadata_payload)
Keys == {"intake_id", "template_id", "organization_id", "patient_id",
         "phone_number", "prefilled_greeting"}
\* insertion order of make_call's metadata_payload
KeyOrder == <<"intake_id", "template_id", "organization_id", "patient_id",
              "phone_number", "prefilled_greeting">>

\* a mapping over the wire-format keys; a key it does not hold maps to Absent
MkDict(i, t, o, p, ph, g) ==
    [intake_id |-> i, template_id |-> t, organization_id |-> o,
     patient_id |-> p, phone_number |-> ph, prefilled_greeting |-> g]
EmptyDict == MkDict(Absent, Absent, Absent, Absent, Absent, Absent)

\* a decoded value: None, str, int, list or dict; n is the number of members
\* of a list or dict, d the wire-format keys of a dict
PyVal(ty, s, n, d) == [ty |-> ty, s |-> s, n |-> n, d |-> d]
NoneVal == PyVal("NoneType", "", 0, EmptyDict)
DictVal(d, n) == PyVal("dict", "", n, d)
ListVal(n) == PyVal("list", "", n, EmptyDict)
ScalarVal(v) == PyVal(v.ty, v.s, 0, EmptyDict)

\* bool(v) of a decoded value: empty containers are falsy
Truthy(v) ==
    CASE v.ty = "dict" -> v.n > 0
      [] v.ty = "list" -> v.n > 0
      [] v.ty = "bool" -> v.n # 0
      [] OTHER -> ScalarTruthy([ty |-> v.ty, s |-> v.s])

\* dict.get(k): the value, None when the key is missing
DictGet(d, k) == IF d[k].ty = "absent" THEN PyNone ELSE d[k]

(***************************************************************************)
(* JSON text is a sequence of tokens [t, v]: punctuation "p", string "s",  *)
(* number "n", literal "l" (null), whitespace "w", and "x" for a character *)
(* that starts no JSON token.                                              *)
(***************************************************************************)
Tok(t, v) == [t |-> t, v |-> v]
WS == Tok("w", " ")
LBrace == Tok("p", "{")
RBrace == Tok("p", "}")
LBrack == Tok("p", "[")
RBrack == Tok("p", "]")
Colon == Tok("p", ":")
Comma == Tok("p", ",")
Garbage == Tok("x", "?")

IsScalarTok(tk) == tk.t \in {"s", "n", "l"}
TokOfScalar(v) ==
    CASE v.ty = "str" -> Tok("s", v.s)
      [] v.ty = "int" -> Tok("n", v.s)
      [] OTHER -> Tok("l", "null")
ScalarOfTok(tk) ==
    CASE tk.t = "s" -> PyStr(tk.v)
      [] tk.t = "n" -> PyInt(tk.v)
      [] OTHER -> PyNone

RECURSIVE DumpsFrom(_, _, _)
\* the "key": value pairs of d from position i of KeyOrder on
DumpsFrom(d, i, first) ==
    IF i > Len(KeyOrder) THEN <<>>
    ELSE LET k == KeyOrder[i] IN
         IF d[k].ty = "absent" THEN DumpsFrom(d, i + 1, first)
         ELSE (IF first THEN <<>> ELSE <<Comma, WS>>)
              \o <<Tok("s", k), Colon, WS, TokOfScalar(d[k])>>
              \o DumpsFrom(d, i + 1, FALSE)

\* json.dumps(d) with the default separators ", " and ": "
json_dumps(d) == <<LBrace>> \o DumpsFrom(d, 1, TRUE) \o <<RBrace>>

RECURSIVE LStrip(_)
LStrip(text) ==
    IF text # <<>> /\ Head(text).t = "w" THEN LStrip(Tail(text)) ELSE text
RECURSIVE RStrip(_)
RStrip(text) ==
    IF text # <<>> /\ text[Len(text)].t = "w"
    THEN RStrip(SubSeq(text, 1, Len(text) - 1)) ELSE text
\* str.strip()
Strip(text) == RStrip(LStrip(text))

\* the text without its insignificant whitespace
NoWS(text) == SelectSeq(text, LAMBDA tk : tk.t # "w")

\* the members between the brackets of a well-formed array or object
Inner(toks) == SubSeq(toks, 2, Len(toks) - 1)

ArrayOK(inner) ==
    \/ inner = <<>>
    \/ /\ Len(inner) % 2 = 1
       /\ \A i \in 1..Len(inner) :
            IF i % 2 = 1 THEN IsScalarTok(inner[i]) ELSE inner[i] = Comma

ObjectOK(inner) ==
    \/ inner = <<>>
    \/ /\ Len(inner) % 4 = 3
       /\ \A i \in 1..Len(inner) :
            CASE i % 4 = 1 -> inner[i].t = "s"
              [] i % 4 = 2 -> inner[i] = Colon
              [] i % 4 = 3 -> IsScalarTok(inner[i])
              [] OTHER -> inner[i] = Comma

\* the mapping an object's members decode to: the last member of a key wins
ObjectOf(inner) ==
    LET val(k) ==
          LET at == {i \in 1..Len(inner) : i % 4 = 1 /\ inner[i].v = k} IN
          IF at = {} THEN Absent
          ELSE LET last == CHOOSE i \in at : \A j \in at : j <= i
               IN ScalarOfTok(inner[last + 2])
    IN MkDict(val("intake_id"), val("template_id"), val("organization_id"),
              val("patient_id"), val("phone_number"), val("prefilled_greeting"))

\* json.loads(text): [ok |-> FALSE] stands for JSONDecodeError
json_loads(text) ==
    LET toks == NoWS(text) IN
    CASE Len(toks) = 1 /\ IsScalarTok(toks[1]) ->
            [ok |-> TRUE, v |-> ScalarVal(ScalarOfTok(toks[1]))]
      [] Len(toks) >= 2 /\ toks[1] = LBrack /\ toks[Len(toks)] = RBrack
            /\ ArrayOK(Inner(toks)) ->
            [ok |-> TRUE, v |-> ListVal((Len(toks) - 1) \div 2)]
      [] Len(toks) >= 2 /\ toks[1] = LBrace /\ toks[Len(toks)] = RBrace
            /\ ObjectOK(Inner(toks)) ->
            [ok |-> TRUE, v |-> DictVal(ObjectOf(Inner(toks)), Len(toks) \div 4)]
      [] OTHER -> [ok |-> FALSE, v |-> NoneVal]

(***************************************************************************)
(* The dispatch metadata (ctx.job.metadata): absent, bytes, str, a mapping *)
(* or a value of another type.                                             *)
(***************************************************************************)
Payload(kind, utf8ok, text, val) ==
    [kind |-> kind, utf8ok |-> utf8ok, text |-> text, val |-> val]
NoPayload == Payload("NoneType", TRUE, <<>>, NoneVal)
StrPayload(text) == Payload("str", TRUE, text, NoneVal)
BytesPayload(text, utf8ok) == Payload("bytes", utf8ok, text, NoneVal)
\* the members of a mapping payload are its wire-format keys
DictPayload(d) ==
    Payload("dict", TRUE, <<>>,
            DictVal(d, Cardinality({k \in Keys : d[k].ty # "absent"})))
OtherPayload(v) == Payload(v.ty, TRUE, <<>>, ScalarVal(v))

\* bool(metadata_payload)
PayloadTruthy(m) ==
    CASE m.kind = "NoneType" -> FALSE
      [] m.kind \in {"bytes", "str"} -> m.text # <<>>
      [] OTHER -> Truthy(m.val)

\* entrypoint, the try block: the parsed metadata, None when there is none,
\* when the payload is of an unsupported type or when decoding raised
\* (UnicodeDecodeError, JSONDecodeError: caught and logged)
DecodeMetadata(m) ==
    IF ~PayloadTruthy(m) THEN NoneVal
    ELSE IF m.kind = "bytes" /\ ~m.utf8ok THEN NoneVal
    ELSE IF m.kind \in {"bytes", "str"} THEN
         LET stripped == Strip(m.text) IN
         IF stripped = <<>> THEN NoneVal
         ELSE LET r == json_loads(stripped) IN
              IF r.ok THEN r.v ELSE NoneVal
    ELSE IF m.kind = "dict" THEN m.val
    ELSE NoneVal

\* the ids a session works with, and the exception that ended the parse
Ids(exc, t, o, p, i) ==
    [exc |-> exc, template_id |-> t, organization_id |-> o, patient_id |-> p,
     intake_id |-> i]

\* a validation that forgets patient_id
MissingRequired_NoPatient(t, o, p) ==
    ~ScalarTruthy(t) \/ ~ScalarTruthy(o)

\* a validation that raises only when every id is missing
MissingRequired_AllMissing(t, o, p) ==
    ~ScalarTruthy(t) /\ ~ScalarTruthy(o) /\ ~ScalarTruthy(p)

\* entrypoint, "Validate required fields"
MissingRequired(t, o, p) ==
    ~ScalarTruthy(t) \/ ~ScalarTruthy(o) \/ ~ScalarTruthy(p)

\* entrypoint, "Extract IDs from parsed metadata" and the validation: .get
\* exists on a mapping only, and the extraction runs outside the try block
ExtractIds(parsed) ==
    IF Truthy(parsed) /\ parsed.ty # "dict"
    THEN Ids("AttributeError", PyNone, PyNone, PyNone, PyNone)
    ELSE LET d == IF Truthy(parsed) THEN parsed.d ELSE EmptyDict
             t == DictGet(d, "template_id")
             o == DictGet(d, "organization_id")
             p == DictGet(d, "patient_id")
             i == DictGet(d, "intake_id")
         IN Ids(IF MissingRequired(t, o, p) THEN "ValueError" ELSE "none",
                t, o, p, i)

\* the metadata parse of entrypoint as a whole
ParseMetadata(m) == ExtractIds(DecodeMetadata(m))

(***************************************************************************)
(* Constants of calling_agent.py and prompts.py.                           *)
(***************************************************************************)
AGENT_NAME == "ZScribe Intake Coordinator"
DEFAULT_PATIENT_NAME == "there"
DEFAULT_ORGANIZATION_NAME == "our office"
\* len(GREETING_VARIATIONS)
NumGreetings == 4

\* GREETING_VARIATIONS[i].format(agent, patient, organization)
Greeting(i, agent, patient, organization) ==
    [tpl |-> i, agent |-> agent, patient |-> patient,
     organization |-> organization]
NoGreeting == Greeting(0, "", "", "")

\* an Optional[str] holding a script: the text is a sequence of segments
NoneText == [isNone |-> TRUE, text |-> <<>>]
SomeText(t) == [isNone |-> FALSE, text |-> t]
TextTruthy(x) == ~x.isNone /\ x.text # <<>>

\* prompts.get_fallback_instructions
get_fallback_instructions ==
    <<"You are a medical intake agent. Collect patient information professionally.",
      "1. Chief complaint", "2. Symptoms", "3. Medical history",
      "4. Medications", "5. Allergies",
      "Ask questions one by one and be conversational.">>

(***************************************************************************)
(* The record store (Supabase) as db_utils.py sees it.                     *)
(***************************************************************************)
\* the answer of a keyed select: a row with its name column, no row, or a
\* transport error
Row(name) == [kind |-> "row", name |-> name]
NoRow == [kind |-> "norow", name |-> PyNone]
DbError == [kind |-> "error", name |-> PyNone]
PatientAnswers == {Row(PyStr("Ann Lee")), Row(PyStr("")), NoRow, DbError}
OrganizationAnswers == {Row(PyStr("Oak Clinic")), Row(PyNone), NoRow, DbError}

\* the result of a lookup: a profile mapping, None, or an exception value
Profile(name) == [kind |-> "dict", name |-> name]
NoProfile == [kind |-> "NoneType", name |-> PyNone]
ExcResult == [kind |-> "exception", name |-> PyNone]

\* db_utils.fetch_patient: every failure is caught and becomes None
fetch_patient(answer) ==
    IF answer.kind = "row" THEN Profile(answer.name) ELSE NoProfile

\* db_utils.fetch_organization
fetch_organization(answer) ==
    IF answer.kind = "row" THEN Profile(answer.name) ELSE NoProfile

\* entrypoint: an exception value of the gather becomes a missing profile
ProfileOf(result) == IF result.kind = "exception" THEN NoProfile ELSE result

\* a name extraction that takes full_name without testing it
PatientNameOf_NoDefault(result) ==
    LET profile == ProfileOf(result) IN
    IF profile.kind = "dict" THEN profile.name.s ELSE DEFAULT_PATIENT_NAME

\* entrypoint, "Extract names with fallback to defaults" (patient)
PatientNameOf(result) ==
    LET profile == ProfileOf(result) IN
    IF profile.kind = "dict" /\ ScalarTruthy(profile.name)
    THEN profile.name.s ELSE DEFAULT_PATIENT_NAME

\* entrypoint, "Extract names with fallback to defaults" (organization)
OrganizationNameOf(result) ==
    LET profile == ProfileOf(result) IN
    IF profile.kind = "dict" /\ ScalarTruthy(profile.name)
    THEN profile.name.s ELSE DEFAULT_ORGANIZATION_NAME

(***************************************************************************)
(* prompts.generate_instructions_from_api.                                 *)
(***************************************************************************)
\* the template record of the template API: None when the fetch fails
\* questions_ty tells what the record holds under "questions": a list of
\* mappings with a "text" key, null, or a list of plain strings
NoTemplate == [found |-> FALSE, template_name |-> "", instructions_for_ai |-> "",
               questions_ty |-> "list_of_dict", questions |-> <<>>]
TemplateRecords ==
    {[found |-> TRUE, template_name |-> "Annual visit",
      instructions_for_ai |-> "Be brief.",
      questions_ty |-> "list_of_dict",
      questions |-> <<"Any new symptoms?", "Any new medications?">>]}

\* template records the question loop of lines 60-62 cannot render
MalformedTemplates ==
    {[found |-> TRUE, template_name |-> "Annual visit",
      instructions_for_ai |-> "Be brief.",
      questions_ty |-> ty, questions |-> qs] :
        <<ty, qs>> \in {<<"null", <<>>>>,
                        <<"list_of_str", <<"Any new symptoms?">>>>}}

\* api_client.fetch_template_from_api: the record of a 200 answer with
\* "success", None for every other answer and for a transport error
TemplateAnswers ==
    {[status |-> st, template |-> NoTemplate] :
        st \in {"TransportError", "HttpError", "NotSuccess"}}
    \cup {[status |-> "ok", template |-> t] :
             t \in TemplateRecords \cup MalformedTemplates}
fetch_template_from_api(answer) ==
    IF answer.status = "ok" THEN answer.template ELSE NoTemplate

\* lines 60-62: enumerate(None) raises TypeError, and .get on an entry
\* that is no mapping raises AttributeError
RenderRaises(template_data) ==
    /\ template_data.found
    /\ \/ template_data.questions_ty = "null"
       \/ /\ template_data.questions_ty = "list_of_str"
          /\ template_data.questions # <<>>

\* the parameters of generate_instructions_from_api
GenerateInstructionsParams ==
    {"template_id", "organization_id", "patient_id", "appointment_details"}

\* the "i. text" lines of the question list
Numbered(questions) ==
    [i \in 1..Len(questions) |-> <<ToString(i), questions[i]>>]

RECURSIVE Flat(_)
Flat(lines) == IF lines = <<>> THEN <<>> ELSE Head(lines) \o Flat(Tail(lines))

\* the body of generate_instructions_from_api
RenderInstructions(template_data, patient_data, organization_data) ==
    IF ~template_data.found THEN get_fallback_instructions
    ELSE LET patient_name ==
                 IF patient_data.kind = "row" /\ patient_data.name.ty = "str"
                 THEN patient_data.name.s ELSE "the patient"
             organization_name ==
                 IF organization_data.kind = "row" /\ organization_data.name.ty = "str"
                 THEN organization_data.name.s ELSE "your medical office"
         IN <<"You are a professional medical intake agent calling", patient_name,
              "Hello, this is Sarah calling from", organization_name,
              "TEMPLATE:", template_data.template_name,
              "AI INSTRUCTIONS:", template_data.instructions_for_ai,
              "SPECIFIC QUESTIONS TO ASK">>
            \o Flat(Numbered(template_data.questions))
            \o <<"CRITICAL RULES", patient_name, organization_name>>

\* a generate_instructions_from_api that returns what it has built when the
\* question loop fails
CallGenerateInstructions_PartialScript(kwargs, template_data, patient_data, organization_data) ==
    IF ~(kwargs \subseteq GenerateInstructionsParams)
    THEN [raised |-> TRUE, value |-> NoneText]
    ELSE [raised |-> FALSE,
          value |-> SomeText(<<"TEMPLATE:", template_data.template_name>>)]

\* a call generate_instructions_from_api(**kwargs): a keyword that is no
\* parameter raises TypeError before the body runs; an exception of the
\* question loop leaves the function
CallGenerateInstructions(kwargs, template_data, patient_data, organization_data) ==
    IF ~(kwargs \subseteq GenerateInstructionsParams)
    THEN [raised |-> TRUE, value |-> NoneText]
    ELSE IF RenderRaises(template_data)
    THEN [raised |-> TRUE, value |-> NoneText]
    ELSE [raised |-> FALSE,
          value |-> SomeText(RenderInstructions(template_data, patient_data,
                                                organization_data))]

\* the keywords entrypoint passes in Stage 1
Stage1Kwargs == {"template_id", "organization_id", "patient_id", "prefilled_greeting"}

\* entrypoint, Stage 1: the instructions after the try/except
Stage1Instructions(template_data, patient_data, organization_data) ==
    LET r == CallGenerateInstructions(Stage1Kwargs, template_data, patient_data,
                                      organization_data)
    IN IF r.raised THEN NoneText ELSE r.value

\* a constructor that hands the instructions on as they are
FinalInstructions_NoFallback(instructions) == instructions.text

\* a constructor that falls back only when the instructions are None
FinalInstructions_NoneOnly(instructions) ==
    IF instructions.isNone THEN get_fallback_instructions
    ELSE instructions.text

\* IntakeAgent.__init__: "Use provided instructions or fallback"
FinalInstructions(instructions) ==
    IF TextTruthy(instructions) THEN instructions.text
    ELSE get_fallback_instructions

\* IntakeAgent.__init__
IntakeAgent(patient_name, organization_name, instructions) ==
    [made |-> TRUE,
     patient_name |-> IF patient_name # "" THEN patient_name
                      ELSE DEFAULT_PATIENT_NAME,
     organization_name |-> IF organization_name # "" THEN organization_name
                           ELSE DEFAULT_ORGANIZATION_NAME,
     agent_name |-> AGENT_NAME,
     instructions |-> FinalInstructions(instructions)]
NoAgent == [made |-> FALSE, patient_name |-> "", organization_name |-> "",
            agent_name |-> "", instructions |-> <<>>]

(***************************************************************************)
(* The dispatch payloads and the environment a session runs in.            *)
(***************************************************************************)
ValidDict(i) ==
    MkDict(i, PyStr("t1"), PyStr("o1"), PyStr("p1"), PyStr("+15550100"), Absent)

\* what a required id may be in a payload
IdChoices(id) == {Absent, PyNone, PyStr(""), PyStr(id)}

AllDicts ==
    {MkDict(i, t, o, p, ph, g) :
        i \in IdChoices("i1"), t \in IdChoices("t1"), o \in IdChoices("o1"),
        p \in IdChoices("p1"), ph \in {Absent, PyStr("+15550100")},
        g \in {Absent, PyStr("Hello again")}}

\* texts that are no JSON object: empty, blank, not JSON, and JSON values of
\* another type
OtherTexts ==
    {<<>>, <<WS>>, <<WS, WS>>, <<Garbage>>, <<LBrace>>, <<LBrace, Tok("s", "patient_id"), RBrace>>,
     <<LBrack, RBrack>>, <<LBrack, Tok("n", "1"), RBrack>>,
     <<LBrack, Tok("s", "t1"), Comma, WS, Tok("s", "o1"), RBrack>>,
     <<Tok("n", "0")>>, <<Tok("n", "5")>>, <<Tok("s", "")>>, <<Tok("s", "t1")>>,
     <<Tok("l", "null")>>, <<LBrace, RBrace>>, <<WS, LBrace, RBrace, WS>>}

AllTexts ==
    {json_dumps(d) : d \in AllDicts}
    \cup {<<WS>> \o json_dumps(d) \o <<WS>> : d \in AllDicts}
    \cup {SubSeq(json_dumps(d), 1, Len(json_dumps(d)) - 1) : d \in AllDicts}
    \cup OtherTexts

\* every shape of payload the parse is run on
AllPayloads ==
    {NoPayload}
    \cup {StrPayload(t) : t \in AllTexts}
    \cup {BytesPayload(t, TRUE) : t \in AllTexts}
    \cup {BytesPayload(t, FALSE) : t \in AllTexts \ {<<>>}}
    \cup {DictPayload(d) : d \in AllDicts}
    \cup {OtherPayload(v) : v \in {PyInt("0"), PyInt("7")}}

\* payloads that lack a required id: no patient_id, an empty template_id,
\* a null organization_id
NoPatientPayload ==
    StrPayload(json_dumps(MkDict(PyStr("i1"), PyStr("t1"), PyStr("o1"), Absent,
                                 PyStr("+15550100"), Absent)))
EmptyTemplatePayload ==
    DictPayload(MkDict(PyStr("i1"), PyStr(""), PyStr("o1"), PyStr("p1"),
                       Absent, Absent))
NullOrganizationPayload ==
    BytesPayload(json_dumps(MkDict(Absent, PyStr("t1"), PyNone, PyStr("p1"),
                                   Absent, Absent)), TRUE)
PayloadsLackingId ==
    {NoPayload, NoPatientPayload, EmptyTemplatePayload, NullOrganizationPayload}

\* valid payloads that carry no intake_id: the key absent, null, or empty
NoIntakePayloads ==
    {DictPayload(ValidDict(Absent)),
     StrPayload(json_dumps(ValidDict(PyNone))),
     BytesPayload(json_dumps(ValidDict(PyStr(""))), TRUE)}

\* the payloads whole sessions are run with
SessionPayloads ==
    {StrPayload(json_dumps(ValidDict(PyStr("i1")))),
     BytesPayload(json_dumps(ValidDict(PyStr("i9"))), TRUE),
     StrPayload(<<LBrack, Tok("n", "1"), RBrack>>)}
    \cup NoIntakePayloads
    \cup PayloadsLackingId

\* the intakes table: "i1" is a record, "i9" is none
IntakeIds == {"i1", "i9"}
NoTranscript == <<>>
InitialStore ==
    [id \in IntakeIds |->
        [exists |-> (id = "i1"), transcription |-> NoTranscript]]

\* supabase.table("intakes").update({"transcription": data}).eq("id", id)
UpdateStatement(id, data) == [id |-> id, data |-> data]

\* an item of session.history.to_dict(): its role ("" when the key is
\* missing or null), the type of its content and the content: the pieces
\* of a string (" " is whitespace), the parts of a list ("" is an empty
\* part), nothing for a missing content or one of another type.  The
\* greeting session.say added is kept as a part of its own.
TypedItem(role, ty, content) ==
    [role |-> role, ty |-> ty, content |-> content, greeting |-> NoGreeting]
Item(role, content) == TypedItem(role, "list", content)
GreetingItem(g) ==
    [role |-> "assistant", ty |-> "list", content |-> <<>>, greeting |-> g]
\* the items session.history may hold besides the greeting
Items == {Item("user", <<"I have a cough">>), Item("assistant", <<>>)}
\* items of every shape the flattening of lines 400-418 tells apart
RichItems ==
    Items \cup
    {Item("", <<"lookup_record">>),
     Item("user", <<"", "yes", "please">>),
     TypedItem("user", "str", <<" ", "no", " ">>),
     TypedItem("system", "other", <<"7">>),
     TypedItem("assistant", "none", <<>>)}

\* the jobs of a worker process
Jobs == {1, 2}
\* a job the process has not been given yet: entrypoint's locals
NoJob ==
    [pc |-> "new", intake_id |-> PyNone, patAnswer |-> NoRow,
     orgAnswer |-> NoRow, patient_name |-> "", organization_name |-> "",
     instructions |-> NoneText, span |-> 0, agent |-> NoAgent, vad |-> 0,
     said |-> <<>>, history |-> <<>>, transcript_data |-> <<>>]
\* a process that has not imported calling_agent: vad_model is the
\* instance module-level _vad_model names, userdata_vad the instance of
\* proc.userdata["vad"], spans[k] the state of span object k of the client
NoWorker ==
    [pc |-> "unloaded", vad_loads |-> 0, vad_model |-> 0, userdata_vad |-> 0,
     jobs |-> [s \in Jobs |-> NoJob], spans |-> [k \in Jobs |-> "none"]]

\* no request has reached the trigger endpoint
NoCall ==
    [pc |-> "idle", args |-> EmptyDict, trunk |-> <<>>, connection |-> "none",
     dispatches |-> <<>>, participants |-> 0, sip_failed |-> FALSE,
     exc |-> "none", response |-> "none"]

(***************************************************************************)
(* State.                                                                  *)
(***************************************************************************)
\* state.ConversationState: a template of n questions (none when
\* template_info is None), the index of the current question, the responses
ConversationState(template, n) ==
    [template_info |-> template,
     questions |-> [i \in 1..n |-> ToString(i)],
     current_question_index |-> 0,
     responses |-> <<>>]
NoConversation == ConversationState(FALSE, 0)

VARIABLES
    metadata,             \* ctx.job.metadata
    langfuse,             \* module global: TRUE when the client was created
    pc,                   \* position of entrypoint
    exc,                  \* the exception that left entrypoint, "none" if none
    template_id, organization_id, patient_id, intake_id,
    patTask, orgTask,     \* the two tasks of the gather
    patAnswer, orgAnswer, \* what the record store answered each lookup
    patient_result, organization_result,
    patient_name, organization_name,
    stores,               \* what the prompt store and the template API answer
    temp_greeting, instructions,
    span,                 \* entrypoint's local: "span" or "None"
    tracing,              \* calls the tracing client has received
    voice,                \* the AgentSession
    agent,                \* the IntakeAgent given to session.start
    onEnter,              \* position of IntakeAgent.on_enter
    greeting,             \* on_enter's local
    said,                 \* what session.say has spoken
    history,              \* session.history
    hookRegistered,       \* ctx.add_shutdown_callback was called
    hookPc,               \* position of save_transcript (the hook)
    transcript_data, success, transcript_text,
    store,                \* the intakes table
    call,                 \* the trigger endpoint's call of make_call
    worker,               \* a worker process: its module globals and its jobs
    conversation,         \* a ConversationState of state.py
    writes                \* the update statements the intakes table has executed

vars == <<metadata, langfuse, pc, exc, template_id, organization_id, patient_id,
          intake_id, patTask, orgTask, patAnswer, orgAnswer, patient_result,
          organization_result, patient_name, organization_name, stores,
          temp_greeting, instructions, span, tracing, voice, agent, onEnter,
          greeting, said, history, hookRegistered, hookPc, transcript_data,
          success, transcript_text, store, writes, call, worker,
          conversation>>

\* what no step of entrypoint or of the hook assigns
envVars == <<metadata, langfuse, call, worker, conversation>>
idVars == <<template_id, organization_id, patient_id, intake_id>>
enrichVars == <<patTask, orgTask, patAnswer, orgAnswer, patient_result,
                organization_result>>
nameVars == <<patient_name, organization_name>>
stage1Vars == <<stores, temp_greeting, instructions>>
traceVars == <<span, tracing>>
voiceVars == <<voice, agent, onEnter, greeting, said, history>>
hookVars == <<hookRegistered, hookPc, transcript_data, success, transcript_text>>
storeVars == <<store, writes>>

NoStores == [prompt |-> "unasked", template |-> NoTemplate]
NoTracing == [starts |-> 0, openUpdates |-> 0, updates |-> 0, ends |-> 0,
              output |-> <<>>, transcript_text |-> <<>>, updated |-> FALSE,
              ended |-> FALSE, flushes |-> 0, flushed |-> FALSE]

\* a session with entrypoint at a position before its first assignment,
\* whatever the intakes table holds and the trigger endpoint has done
InitAt(payloads, position) ==
    /\ metadata \in payloads
    /\ langfuse \in BOOLEAN
    /\ pc = position
    /\ exc = "none"
    /\ template_id = PyNone /\ organization_id = PyNone
    /\ patient_id = PyNone /\ intake_id = PyNone
    /\ patTask = "unscheduled" /\ orgTask = "unscheduled"
    /\ patAnswer = NoRow /\ orgAnswer = NoRow
    /\ patient_result = NoProfile /\ organization_result = NoProfile
    /\ patient_name = "" /\ organization_name = ""
    /\ stores = NoStores
    /\ temp_greeting = NoGreeting
    /\ instructions = NoneText
    /\ span = "None"
    /\ tracing = NoTracing
    /\ voice = [constructed |-> FALSE, started |-> FALSE]
    /\ agent = NoAgent
    /\ onEnter = "idle"
    /\ greeting = NoGreeting
    /\ said = <<>>
    /\ history = <<>>
    /\ hookRegistered = FALSE
    /\ hookPc = "idle"
    /\ transcript_data = <<>>
    /\ success = "unset"
    /\ transcript_text = <<>>
    /\ writes = <<>>

\* a new session: the job runtime has called entrypoint
InitSession(payloads) ==
    InitAt(payloads, "start") /\ call = NoCall /\ worker = NoWorker /\ conversation = NoConversation

InitWith(payloads) == InitSession(payloads) /\ store = InitialStore

Init == InitWith(SessionPayloads)

(***************************************************************************)
(* entrypoint, up to the voice session.                                    *)
(***************************************************************************)
\* an entrypoint that starts its span on entry, before the parse
ParseAndValidate_OpensSpan ==
    /\ pc = "start"
    /\ LET r == ParseMetadata(metadata) IN
       /\ template_id' = r.template_id
       /\ organization_id' = r.organization_id
       /\ patient_id' = r.patient_id
       /\ intake_id' = r.intake_id
       /\ exc' = r.exc
       /\ pc' = IF r.exc = "none" THEN "gather" ELSE "raised"
    /\ span' = IF langfuse THEN "span" ELSE span
    /\ tracing' = IF langfuse
                  THEN [tracing EXCEPT !.starts = @ + 1, !.openUpdates = @ + 1]
                  ELSE tracing
    /\ UNCHANGED <<envVars, enrichVars, nameVars, stage1Vars,
                   voiceVars, hookVars, storeVars>>

\* lines 201-240: parse the metadata, extract and validate the ids
ParseAndValidate ==
    /\ pc = "start"
    /\ LET r == ParseMetadata(metadata) IN
       /\ template_id' = r.template_id
       /\ organization_id' = r.organization_id
       /\ patient_id' = r.patient_id
       /\ intake_id' = r.intake_id
       /\ exc' = r.exc
       /\ pc' = IF r.exc = "none" THEN "gather" ELSE "raised"
    /\ UNCHANGED <<envVars, enrichVars, nameVars, stage1Vars,
                   traceVars, voiceVars, hookVars, storeVars>>

\* an entrypoint that registers the shutdown callback before its fetches
Gather_RegistersHook ==
    /\ pc = "gather"
    /\ patTask' = "pending"
    /\ orgTask' = "pending"
    /\ hookRegistered' = TRUE
    /\ pc' = "joining"
    /\ UNCHANGED <<envVars, exc, idVars, patAnswer, orgAnswer,
                   patient_result, organization_result, nameVars, stage1Vars,
                   traceVars, voiceVars, hookPc, transcript_data, success,
                   transcript_text, storeVars>>

\* asyncio.gather(fetch_patient(..), fetch_organization(..)): both
\* coroutines become tasks of the event loop and entrypoint suspends
Gather ==
    /\ pc = "gather"
    /\ patTask' = "pending"
    /\ orgTask' = "pending"
    /\ pc' = "joining"
    /\ UNCHANGED <<envVars, exc, idVars, patAnswer, orgAnswer,
                   patient_result, organization_result, nameVars, stage1Vars,
                   traceVars, voiceVars, hookVars, storeVars>>

\* the event loop runs one task at a time, and a task keeps the loop until
\* it awaits or ends: fetch_patient and fetch_organization hold no await
LoopFree == patTask # "running" /\ orgTask # "running"

\* the patient task runs: fetch_patient issues its query (a blocking call)
PatientLookupStart ==
    /\ patTask = "pending"
    /\ LoopFree
    /\ patTask' = "running"
    /\ UNCHANGED <<envVars, pc, exc, idVars, orgTask, patAnswer,
                   orgAnswer, patient_result, organization_result, nameVars,
                   stage1Vars, traceVars, voiceVars, hookVars, storeVars>>

\* the record store answers the patient query and fetch_patient returns
PatientLookupReturn ==
    /\ patTask = "running"
    /\ \E answer \in PatientAnswers :
         /\ patAnswer' = answer
         /\ patient_result' = fetch_patient(answer)
    /\ patTask' = "done"
    /\ UNCHANGED <<envVars, pc, exc, idVars, orgTask, orgAnswer,
                   organization_result, nameVars, stage1Vars, traceVars,
                   voiceVars, hookVars, storeVars>>

\* the organization task runs: it was made ready after the patient task,
\* so the loop takes it once the patient task has run
OrganizationLookupStart ==
    /\ orgTask = "pending"
    /\ patTask # "pending"
    /\ LoopFree
    /\ orgTask' = "running"
    /\ UNCHANGED <<envVars, pc, exc, idVars, patTask, patAnswer,
                   orgAnswer, patient_result, organization_result, nameVars,
                   stage1Vars, traceVars, voiceVars, hookVars, storeVars>>

\* the record store answers the organization query
OrganizationLookupReturn ==
    /\ orgTask = "running"
    /\ \E answer \in OrganizationAnswers :
         /\ orgAnswer' = answer
         /\ organization_result' = fetch_organization(answer)
    /\ orgTask' = "done"
    /\ UNCHANGED <<envVars, pc, exc, idVars, patTask, patAnswer,
                   patient_result, nameVars, stage1Vars, traceVars, voiceVars,
                   hookVars, storeVars>>

\* an entrypoint that does not await the two tasks before it goes on
Join_NoWait ==
    /\ pc = "joining"
    /\ patient_name' = PatientNameOf(patient_result)
    /\ organization_name' = OrganizationNameOf(organization_result)
    /\ pc' = "stage1"
    /\ UNCHANGED <<envVars, exc, idVars, enrichVars, stage1Vars,
                   traceVars, voiceVars, hookVars, storeVars>>

\* the gather returns once both tasks are done (lines 245-277): the results
\* are values, and the names are taken from them
Join ==
    /\ pc = "joining"
    /\ patTask = "done" /\ orgTask = "done"
    /\ patient_name' = PatientNameOf(patient_result)
    /\ organization_name' = OrganizationNameOf(organization_result)
    /\ pc' = "stage1"
    /\ UNCHANGED <<envVars, exc, idVars, enrichVars, stage1Vars,
                   traceVars, voiceVars, hookVars, storeVars>>

\* lines 286-312, Stage 1: a greeting is chosen and the instructions are
\* asked for; the stores answer as they do at that time
Stage1 ==
    /\ pc = "stage1"
    /\ \E g \in 1..NumGreetings, prompt \in {"fail", "text"},
          template_data \in {NoTemplate} \cup TemplateRecords :
         /\ stores' = [prompt |-> prompt, template |-> template_data]
         /\ temp_greeting' = Greeting(g, AGENT_NAME, patient_name,
                                      organization_name)
         /\ instructions' = Stage1Instructions(template_data, patAnswer, orgAnswer)
    /\ pc' = "span"
    /\ UNCHANGED <<envVars, exc, idVars, enrichVars, nameVars,
                   traceVars, voiceVars, hookVars, storeVars>>

\* a span open that does not test whether the client exists
SpanOpen_NoClientTest ==
    /\ pc = "span"
    /\ \E startOk \in BOOLEAN, updateOk \in BOOLEAN :
         /\ span' = IF startOk /\ updateOk THEN "span" ELSE "None"
         /\ tracing' = [tracing EXCEPT
                !.starts = IF startOk THEN @ + 1 ELSE @,
                !.openUpdates = IF startOk /\ updateOk THEN @ + 1 ELSE @]
    /\ pc' = "session"
    /\ UNCHANGED <<envVars, exc, idVars, enrichVars, nameVars,
                   stage1Vars, voiceVars, hookVars, storeVars>>

\* a span open without the try/except: a failure of either call leaves
\* entrypoint
SpanOpen_Propagates ==
    /\ pc = "span"
    /\ IF langfuse
       THEN \E startOk \in BOOLEAN, updateOk \in BOOLEAN :
              /\ span' = IF startOk /\ updateOk THEN "span" ELSE "None"
              /\ tracing' = [tracing EXCEPT
                     !.starts = IF startOk THEN @ + 1 ELSE @,
                     !.openUpdates = IF startOk /\ updateOk THEN @ + 1 ELSE @]
              /\ exc' = IF startOk /\ updateOk THEN exc ELSE "TracingError"
              /\ pc' = IF startOk /\ updateOk THEN "session" ELSE "raised"
       ELSE /\ UNCHANGED <<span, tracing, exc>>
            /\ pc' = "session"
    /\ UNCHANGED <<envVars, idVars, enrichVars, nameVars,
                   stage1Vars, voiceVars, hookVars, storeVars>>

\* lines 314-353: start the span and set its trace attributes; a failure of
\* either call leaves entrypoint without a span
SpanOpen ==
    /\ pc = "span"
    /\ IF langfuse
       THEN \E startOk \in BOOLEAN, updateOk \in BOOLEAN :
              /\ span' = IF startOk /\ updateOk THEN "span" ELSE "None"
              /\ tracing' = [tracing EXCEPT
                     !.starts = IF startOk THEN @ + 1 ELSE @,
                     !.openUpdates = IF startOk /\ updateOk THEN @ + 1 ELSE @]
       ELSE UNCHANGED <<span, tracing>>
    /\ pc' = "session"
    /\ UNCHANGED <<envVars, exc, idVars, enrichVars, nameVars,
                   stage1Vars, voiceVars, hookVars, storeVars>>

\* lines 355-377: construct the AgentSession and the IntakeAgent and start
\* the session; a failure of session.start leaves entrypoint
SessionStart ==
    /\ pc = "session"
    /\ agent' = IntakeAgent(patient_name, organization_name, instructions)
    /\ \E ok \in BOOLEAN :
         /\ voice' = [constructed |-> TRUE, started |-> ok]
         /\ onEnter' = IF ok THEN "entered" ELSE onEnter
         /\ exc' = IF ok THEN exc ELSE "SessionStartError"
         /\ pc' = IF ok THEN "register" ELSE "raised"
    /\ UNCHANGED <<envVars, idVars, enrichVars, nameVars, stage1Vars,
                   traceVars, greeting, said, history, hookVars, storeVars>>

\* line 448: ctx.add_shutdown_callback(save_transcript); entrypoint returns
RegisterHook ==
    /\ pc = "register"
    /\ hookRegistered' = TRUE
    /\ pc' = "returned"
    /\ UNCHANGED <<envVars, exc, idVars, enrichVars, nameVars,
                   stage1Vars, traceVars, voiceVars, hookPc, transcript_data,
                   success, transcript_text, storeVars>>

(***************************************************************************)
(* The voice session.                                                      *)
(***************************************************************************)
\* an on_enter that speaks as soon as the greeting is chosen, and again
\* after the sleep
OnEnterChoose_SaysAtOnce ==
    /\ onEnter = "entered"
    /\ hookPc = "idle"
    /\ \E g \in 1..NumGreetings :
         /\ greeting' = Greeting(g, agent.agent_name, agent.patient_name,
                                 agent.organization_name)
         /\ said' = Append(said, greeting')
         /\ history' = Append(history, GreetingItem(greeting'))
    /\ onEnter' = "sleeping"
    /\ UNCHANGED <<envVars, pc, exc, idVars, enrichVars, nameVars,
                   stage1Vars, traceVars, voice, agent, hookVars, storeVars>>

\* on_enter, lines 151-165: choose the greeting, then sleep
OnEnterChoose ==
    /\ onEnter = "entered"
    /\ hookPc = "idle"
    /\ \E g \in 1..NumGreetings :
         greeting' = Greeting(g, agent.agent_name, agent.patient_name,
                              agent.organization_name)
    /\ onEnter' = "sleeping"
    /\ UNCHANGED <<envVars, pc, exc, idVars, enrichVars, nameVars,
                   stage1Vars, traceVars, voice, agent, said, history, hookVars,
                   storeVars>>

\* on_enter, lines 167-171: the sleep is over, say the greeting
OnEnterSay ==
    /\ onEnter = "sleeping"
    /\ hookPc = "idle"
    /\ said' = Append(said, greeting)
    /\ history' = Append(history, GreetingItem(greeting))
    /\ onEnter' = "done"
    /\ UNCHANGED <<envVars, pc, exc, idVars, enrichVars, nameVars,
                   stage1Vars, traceVars, voice, agent, greeting, hookVars,
                   storeVars>>

\* a voice pipeline that goes on adding items once the hook has started
AddTurn_AfterShutdown ==
    /\ onEnter = "done"
    /\ Len(history) <= MaxTurns
    /\ \E item \in Items : history' = Append(history, item)
    /\ UNCHANGED <<envVars, pc, exc, idVars, enrichVars, nameVars,
                   stage1Vars, traceVars, voice, agent, onEnter, greeting, said,
                   hookVars, storeVars>>

\* the voice pipeline adds an item to the history
AddTurn ==
    /\ onEnter = "done"
    /\ hookPc = "idle"
    /\ Len(history) <= MaxTurns
    /\ \E item \in Items : history' = Append(history, item)
    /\ UNCHANGED <<envVars, pc, exc, idVars, enrichVars, nameVars,
                   stage1Vars, traceVars, voice, agent, onEnter, greeting, said,
                   hookVars, storeVars>>

(***************************************************************************)
(* The shutdown hook save_transcript (lines 380-445) and                   *)
(* db_utils.save_transcript.                                               *)
(***************************************************************************)
\* an update that adds the transcript to the stored one
save_transcript_Appends(st, id, data, reachable) ==
    IF reachable /\ id \in IntakeIds /\ st[id].exists
    THEN [store |-> [st EXCEPT ![id].transcription = @ \o data],
          success |-> "True"]
    ELSE [store |-> st, success |-> "False"]

\* an update without the .eq("id", intake_id) filter: every record is written
save_transcript_NoFilter(st, id, data, reachable) ==
    IF reachable
    THEN [store |-> [k \in IntakeIds |->
                        IF st[k].exists THEN [st[k] EXCEPT !.transcription = data]
                        ELSE st[k]],
          success |-> "True"]
    ELSE [store |-> st, success |-> "False"]

\* a save that inserts the record when the update matched none
save_transcript_Upserts(st, id, data, reachable) ==
    IF reachable /\ id \in IntakeIds
    THEN [store |-> [st EXCEPT ![id] = [exists |-> TRUE, transcription |-> data]],
          success |-> "True"]
    ELSE [store |-> st, success |-> "False"]

\* db_utils.save_transcript: update the transcription of the record with
\* this id; True when the update returned a row, False when it returned
\* none or raised (every exception is caught)
save_transcript_to_db(st, id, data, reachable) ==
    IF reachable /\ id \in IntakeIds /\ st[id].exists
    THEN [store |-> [st EXCEPT ![id].transcription = data], success |-> "True"]
    ELSE [store |-> st, success |-> "False"]

\* (item.get("role") or "unknown").capitalize()
RoleLabel(role) ==
    CASE role = "" -> "Unknown"
      [] role = "user" -> "User"
      [] role = "assistant" -> "Assistant"
      [] role = "system" -> "System"

\* " ".join(parts)
RECURSIVE JoinParts(_)
JoinParts(parts) ==
    IF parts = <<>> THEN <<>>
    ELSE IF Len(parts) = 1 THEN parts
    ELSE <<Head(parts), " ">> \o JoinParts(Tail(parts))

\* lines 402-410: the text of an item: a string as it is, the truthy parts
\* of a list joined by blanks, "" for anything else
ItemText(item) ==
    CASE item.ty = "str" -> item.content
      [] item.ty = "list" ->
            JoinParts(SelectSeq(item.content, LAMBDA part : part # ""))
      [] OTHER -> <<>>

\* text.strip()
RECURSIVE StripText(_)
StripText(text) ==
    IF text # <<>> /\ Head(text) = " " THEN StripText(Tail(text))
    ELSE IF text # <<>> /\ text[Len(text)] = " "
    THEN StripText(SubSeq(text, 1, Len(text) - 1))
    ELSE text

\* line 412: "if text"
ItemHasText(item) == ItemText(item) # <<>> \/ item.greeting.tpl # 0

\* line 413: f"{role}: {text.strip()}"
TranscriptLine(item) ==
    [role |-> RoleLabel(item.role), text |-> StripText(ItemText(item)),
     greeting |-> item.greeting]

\* a flattening with a line for every item, text or none
FlattenTranscript_KeepsEmpty(items) ==
    [i \in 1..Len(items) |-> TranscriptLine(items[i])]

\* lines 400-415: one "Role: text" line for each item that has text
FlattenTranscript(items) ==
    LET kept == SelectSeq(items, ItemHasText) IN
    [i \in 1..Len(kept) |-> TranscriptLine(kept[i])]

\* the job shuts down (the room disconnected): the runtime calls the
\* registered callback
Disconnect ==
    /\ hookRegistered
    /\ hookPc = "idle"
    /\ hookPc' = "history"
    /\ UNCHANGED <<envVars, pc, exc, idVars, enrichVars, nameVars,
                   stage1Vars, traceVars, voiceVars, hookRegistered,
                   transcript_data, success, transcript_text, storeVars>>

\* a hook that ends the span when it starts, before the transcript is saved
HookHistory_EndsSpanFirst ==
    /\ hookPc = "history"
    /\ \E ok \in BOOLEAN :
         /\ transcript_data' = IF ok THEN history ELSE transcript_data
         /\ hookPc' = IF ok THEN "save" ELSE "end"
    /\ tracing' = IF span # "None" /\ langfuse
                  THEN [tracing EXCEPT !.ends = @ + 1, !.ended = TRUE]
                  ELSE tracing
    /\ UNCHANGED <<envVars, pc, exc, idVars, enrichVars, nameVars,
                   stage1Vars, span, voiceVars, hookRegistered, success,
                   transcript_text, storeVars>>

\* a hook whose span closure is not in a finally block: a failure of the
\* history read leaves the hook
HookHistory_SkipsFinally ==
    /\ hookPc = "history"
    /\ \E ok \in BOOLEAN :
         /\ transcript_data' = IF ok THEN history ELSE transcript_data
         /\ hookPc' = IF ok THEN "save" ELSE "done"
    /\ UNCHANGED <<envVars, pc, exc, idVars, enrichVars, nameVars,
                   stage1Vars, traceVars, voiceVars, hookRegistered, success,
                   transcript_text, storeVars>>

\* line 385: session.history.to_dict(); when it raises, the outer except
\* logs and the finally block is next
HookHistory ==
    /\ hookPc = "history"
    /\ \E ok \in BOOLEAN :
         /\ transcript_data' = IF ok THEN history ELSE transcript_data
         /\ hookPc' = IF ok THEN "save" ELSE "end"
    /\ UNCHANGED <<envVars, pc, exc, idVars, enrichVars, nameVars,
                   stage1Vars, traceVars, voiceVars, hookRegistered, success,
                   transcript_text, storeVars>>

\* a hook that asks for the store write without testing intake_id
HookSave_NoIdTest ==
    /\ hookPc = "save"
    /\ \E reachable \in BOOLEAN :
         LET r == save_transcript_to_db(store, intake_id.s, transcript_data,
                                        reachable) IN
         /\ store' = r.store
         /\ success' = r.success
         /\ writes' = Append(writes, UpdateStatement(intake_id,
                                                      transcript_data))
    /\ hookPc' = "flatten"
    /\ UNCHANGED <<envVars, pc, exc, idVars, enrichVars, nameVars,
                   stage1Vars, traceVars, voiceVars, hookRegistered,
                   transcript_data, transcript_text>>

\* lines 387-398: save to the record store when there is an intake_id
HookSave ==
    /\ hookPc = "save"
    /\ IF ScalarTruthy(intake_id)
       THEN \E reachable \in BOOLEAN :
              LET r == save_transcript_to_db(store, intake_id.s, transcript_data,
                                             reachable) IN
              /\ store' = r.store
              /\ success' = r.success
              /\ writes' = Append(writes, UpdateStatement(intake_id,
                                                           transcript_data))
       ELSE UNCHANGED <<store, success, writes>>
    /\ hookPc' = "flatten"
    /\ UNCHANGED <<envVars, pc, exc, idVars, enrichVars, nameVars,
                   stage1Vars, traceVars, voiceVars, hookRegistered,
                   transcript_data, transcript_text>>

\* a hook without the outer try/finally: a failure of the flattening leaves
\* the hook at once
HookFlatten_Propagates ==
    /\ hookPc = "flatten"
    /\ \E ok \in BOOLEAN :
         /\ transcript_text' = IF ok THEN FlattenTranscript(transcript_data)
                                ELSE transcript_text
         /\ hookPc' = IF ok THEN "update" ELSE "done"
    /\ UNCHANGED <<envVars, pc, exc, idVars, enrichVars, nameVars,
                   stage1Vars, traceVars, voiceVars, hookRegistered,
                   transcript_data, success, storeVars>>

\* lines 400-418: build the flattened transcript; when it raises, the outer
\* except logs and the finally block is next
HookFlatten ==
    /\ hookPc = "flatten"
    /\ \E ok \in BOOLEAN :
         /\ transcript_text' = IF ok THEN FlattenTranscript(transcript_data)
                                ELSE transcript_text
         /\ hookPc' = IF ok THEN "update" ELSE "end"
    /\ UNCHANGED <<envVars, pc, exc, idVars, enrichVars, nameVars,
                   stage1Vars, traceVars, voiceVars, hookRegistered,
                   transcript_data, success, storeVars>>

\* a hook that ends the span after the update as well as in the finally block
HookUpdate_EndsSpan ==
    /\ hookPc = "update"
    /\ IF span # "None" /\ langfuse
       THEN \E ok \in BOOLEAN :
            /\ tracing' = [tracing EXCEPT !.updates = @ + 1, !.ends = @ + 1,
                                          !.output = transcript_data,
                                          !.transcript_text = transcript_text,
                                          !.updated = ok]
            /\ span' = span
       ELSE UNCHANGED <<span, tracing>>
    /\ hookPc' = "end"
    /\ UNCHANGED <<envVars, pc, exc, idVars, enrichVars, nameVars,
                   stage1Vars, voiceVars, hookRegistered, transcript_data,
                   success, transcript_text, storeVars>>

\* lines 420-433: update the trace when there is a span; when the call
\* raises, the inner except logs the failure
HookUpdate ==
    /\ hookPc = "update"
    /\ IF span # "None" /\ langfuse
       THEN \E ok \in BOOLEAN :
            /\ tracing' = [tracing EXCEPT !.updates = @ + 1,
                                          !.output = transcript_data,
                                          !.transcript_text = transcript_text,
                                          !.updated = ok]
            /\ span' = span
       ELSE UNCHANGED <<span, tracing>>
    /\ hookPc' = "end"
    /\ UNCHANGED <<envVars, pc, exc, idVars, enrichVars, nameVars,
                   stage1Vars, voiceVars, hookRegistered, transcript_data,
                   success, transcript_text, storeVars>>

\* the guard of the finally block: "if span and langfuse"
ClosesSpan(sp, lf) == sp # "None" /\ lf

\* a finally block whose span.end() is not inside a try: its failure
\* leaves the hook
HookEnd_Propagates ==
    /\ hookPc = "end"
    /\ IF ClosesSpan(span, langfuse)
       THEN \E ok \in BOOLEAN :
              /\ tracing' = [tracing EXCEPT !.ends = @ + 1, !.ended = ok]
              /\ hookPc' = IF ok THEN "flush" ELSE "raised"
       ELSE /\ tracing' = tracing
            /\ hookPc' = "done"
    /\ UNCHANGED <<envVars, pc, exc, idVars, enrichVars, nameVars,
                   stage1Vars, span, voiceVars, hookRegistered, transcript_data,
                   success, transcript_text, storeVars>>

\* lines 437-441, the finally block: span.end() when there is a span; when
\* it raises, the failure is logged and flush is not called
HookEnd ==
    /\ hookPc = "end"
    /\ IF ClosesSpan(span, langfuse)
       THEN \E ok \in BOOLEAN :
              /\ tracing' = [tracing EXCEPT !.ends = @ + 1, !.ended = ok]
              /\ hookPc' = IF ok THEN "flush" ELSE "done"
       ELSE /\ tracing' = tracing
            /\ hookPc' = "done"
    /\ UNCHANGED <<envVars, pc, exc, idVars, enrichVars, nameVars,
                   stage1Vars, span, voiceVars, hookRegistered, transcript_data,
                   success, transcript_text, storeVars>>

\* line 442: langfuse.flush(); when it raises, the except of line 444 logs
\* the failure
HookFlush ==
    /\ hookPc = "flush"
    /\ \E ok \in BOOLEAN :
         tracing' = [tracing EXCEPT !.flushes = @ + 1, !.flushed = ok]
    /\ hookPc' = "done"
    /\ UNCHANGED <<envVars, pc, exc, idVars, enrichVars, nameVars,
                   stage1Vars, span, voiceVars, hookRegistered, transcript_data,
                   success, transcript_text, storeVars>>

(***************************************************************************)
(* The stage of the call session.                                          *)
(***************************************************************************)
Stage ==
    CASE exc # "none" -> "Aborted"
      [] hookPc = "done" -> "Closed"
      [] hookPc # "idle" -> "Shutdown"
      [] said # <<>> -> "ActiveIntake"
      [] voice.started -> "Greeting"
      [] OTHER -> "DispatchFetch"

Next ==
    \/ ParseAndValidate
    \/ Gather
    \/ PatientLookupStart
    \/ PatientLookupReturn
    \/ OrganizationLookupStart
    \/ OrganizationLookupReturn
    \/ Join
    \/ Stage1
    \/ SpanOpen
    \/ SessionStart
    \/ RegisterHook
    \/ OnEnterChoose
    \/ OnEnterSay
    \/ AddTurn
    \/ Disconnect
    \/ HookHistory
    \/ HookSave
    \/ HookFlatten
    \/ HookUpdate
    \/ HookEnd
    \/ HookFlush

Spec == Init /\ [][Next]_vars

\* the metadata parse alone, over every shape of payload
ParseInit == InitWith(AllPayloads)
ParseNext == ParseAndValidate
ParseSpec == ParseInit /\ [][ParseNext]_vars

(***************************************************************************)
(* Stage 1 and the construction of the agent for every outcome of the      *)
(* instruction call: the session after the enrichment, with the call of    *)
(* lines 298-303 returning a script, an empty string or None, or raising.  *)
(***************************************************************************)
CompileOutcomes ==
    {[raised |-> TRUE, value |-> NoneText],
     [raised |-> FALSE, value |-> NoneText],
     [raised |-> FALSE, value |-> SomeText(<<>>)],
     [raised |-> FALSE, value |-> SomeText(get_fallback_instructions)]}
    \cup {[raised |-> FALSE, value |-> SomeText(RenderInstructions(t, NoRow, NoRow))] :
             t \in TemplateRecords}

\* the state entrypoint is in when the names have been taken (line 277)
ConstructInit ==
    /\ metadata = StrPayload(json_dumps(ValidDict(PyStr("i1"))))
    /\ langfuse \in BOOLEAN
    /\ pc = "stage1"
    /\ exc = "none"
    /\ template_id = PyStr("t1") /\ organization_id = PyStr("o1")
    /\ patient_id = PyStr("p1") /\ intake_id = PyStr("i1")
    /\ patTask = "done" /\ orgTask = "done"
    /\ patAnswer \in PatientAnswers /\ orgAnswer \in OrganizationAnswers
    /\ patient_result = fetch_patient(patAnswer)
    /\ organization_result = fetch_organization(orgAnswer)
    /\ patient_name = PatientNameOf(patient_result)
    /\ organization_name = OrganizationNameOf(organization_result)
    /\ stores = NoStores
    /\ temp_greeting = NoGreeting
    /\ instructions = NoneText
    /\ span = "None"
    /\ tracing = NoTracing
    /\ voice = [constructed |-> FALSE, started |-> FALSE]
    /\ agent = NoAgent
    /\ onEnter = "idle"
    /\ greeting = NoGreeting
    /\ said = <<>>
    /\ history = <<>>
    /\ hookRegistered = FALSE
    /\ hookPc = "idle"
    /\ transcript_data = <<>>
    /\ success = "unset"
    /\ transcript_text = <<>>
    /\ store = InitialStore
    /\ writes = <<>>
    /\ call = NoCall
    /\ worker = NoWorker /\ conversation = NoConversation

\* lines 288-312 around a call with any outcome: instructions is None
\* before the try and stays None when the call raises
Stage1AnyOutcome ==
    /\ pc = "stage1"
    /\ \E g \in 1..NumGreetings, r \in CompileOutcomes :
         /\ temp_greeting' = Greeting(g, AGENT_NAME, patient_name,
                                      organization_name)
         /\ instructions' = IF r.raised THEN NoneText ELSE r.value
    /\ pc' = "span"
    /\ UNCHANGED <<envVars, exc, idVars, enrichVars, nameVars,
                   stores, traceVars, voiceVars, hookVars, storeVars>>

ConstructNext == Stage1AnyOutcome \/ SpanOpen \/ SessionStart
ConstructSpec == ConstructInit /\ [][ConstructNext]_vars

(***************************************************************************)
(* The instruction tiers on their own: generate_instructions_from_api      *)
(* applied to every answer of the template API, called with the keywords   *)
(* of lines 298-303 and with the keywords it declares, inside the          *)
(* try/except of Stage 1 and followed by the construction of the agent.    *)
(***************************************************************************)
DeclaredKwargs == {"template_id", "organization_id", "patient_id"}

Stage1Compile ==
    /\ pc = "stage1"
    /\ \E g \in 1..NumGreetings, kwargs \in {Stage1Kwargs, DeclaredKwargs},
          answer \in TemplateAnswers :
         LET template_data == fetch_template_from_api(answer)
             r == CallGenerateInstructions(kwargs, template_data, patAnswer,
                                           orgAnswer)
         IN /\ stores' = [prompt |-> "fail", template |-> template_data]
            /\ temp_greeting' = Greeting(g, AGENT_NAME, patient_name,
                                         organization_name)
            /\ instructions' = IF r.raised THEN NoneText ELSE r.value
    /\ pc' = "span"
    /\ UNCHANGED <<envVars, exc, idVars, enrichVars, nameVars,
                   traceVars, voiceVars, hookVars, storeVars>>

CompileNext == Stage1Compile \/ SpanOpen \/ SessionStart
CompileSpec == ConstructInit /\ [][CompileNext]_vars

(***************************************************************************)
(* The session from Stage 1 to the end of the shutdown hook, with the      *)
(* scheduling of the job runtime: a registered callback that has been      *)
(* called is awaited, so each of its steps is taken once it can be; the    *)
(* disconnect is the environment's and has no such guarantee.              *)
(***************************************************************************)
ShutdownInit ==
    /\ ConstructInit
    /\ patAnswer \in {Row(PyStr("Ann Lee")), DbError}
    /\ orgAnswer = DbError

ShutdownNext ==
    \/ Stage1
    \/ SpanOpen
    \/ SessionStart
    \/ RegisterHook
    \/ OnEnterChoose
    \/ OnEnterSay
    \/ AddTurn
    \/ Disconnect
    \/ HookHistory
    \/ HookSave
    \/ HookFlatten
    \/ HookUpdate
    \/ HookEnd
    \/ HookFlush

HookFairness ==
    /\ WF_vars(HookHistory)
    /\ WF_vars(HookSave)
    /\ WF_vars(HookFlatten)
    /\ WF_vars(HookUpdate)
    /\ WF_vars(HookEnd)
    /\ WF_vars(HookFlush)

ShutdownSpec == ShutdownInit /\ [][ShutdownNext]_vars /\ HookFairness

(***************************************************************************)
(* The shutdown hook over histories of every shape: a session that has     *)
(* spoken its greeting, the voice pipeline adding items until the          *)
(* disconnect, then the hook.                                              *)
(***************************************************************************)
TranscriptInit ==
    /\ intake_id \in {PyStr(id) : id \in IntakeIds}
    /\ metadata = StrPayload(json_dumps(ValidDict(intake_id)))
    /\ langfuse \in BOOLEAN
    /\ pc = "returned"
    /\ exc = "none"
    /\ template_id = PyStr("t1") /\ organization_id = PyStr("o1")
    /\ patient_id = PyStr("p1")
    /\ patTask = "done" /\ orgTask = "done"
    /\ patAnswer = DbError /\ orgAnswer = DbError
    /\ patient_result = fetch_patient(patAnswer)
    /\ organization_result = fetch_organization(orgAnswer)
    /\ patient_name = PatientNameOf(patient_result)
    /\ organization_name = OrganizationNameOf(organization_result)
    /\ stores = [prompt |-> "fail", template |-> NoTemplate]
    /\ temp_greeting = Greeting(1, AGENT_NAME, patient_name, organization_name)
    /\ instructions = Stage1Instructions(NoTemplate, patAnswer, orgAnswer)
    /\ span \in (IF langfuse THEN {"span", "None"} ELSE {"None"})
    /\ tracing = [NoTracing EXCEPT
                     !.starts = IF span = "span" THEN 1 ELSE 0,
                     !.openUpdates = IF span = "span" THEN 1 ELSE 0]
    /\ voice = [constructed |-> TRUE, started |-> TRUE]
    /\ agent = IntakeAgent(patient_name, organization_name, instructions)
    /\ onEnter = "done"
    /\ greeting = Greeting(2, AGENT_NAME, patient_name, organization_name)
    /\ said = <<greeting>>
    /\ history = <<GreetingItem(greeting)>>
    /\ hookRegistered = TRUE
    /\ hookPc = "idle"
    /\ transcript_data = <<>>
    /\ success = "unset"
    /\ transcript_text = <<>>
    /\ store = InitialStore
    /\ writes = <<>>
    /\ call = NoCall
    /\ worker = NoWorker /\ conversation = NoConversation

\* the voice pipeline adds an item of any shape to the history
AddItem ==
    /\ onEnter = "done"
    /\ hookPc = "idle"
    /\ Len(history) <= MaxTurns + 1
    /\ \E item \in RichItems : history' = Append(history, item)
    /\ UNCHANGED <<envVars, pc, exc, idVars, enrichVars, nameVars,
                   stage1Vars, traceVars, voice, agent, onEnter, greeting, said,
                   hookVars, storeVars>>

TranscriptNext ==
    \/ AddItem
    \/ Disconnect
    \/ HookHistory
    \/ HookSave
    \/ HookFlatten
    \/ HookUpdate
    \/ HookEnd
    \/ HookFlush

TranscriptSpec == TranscriptInit /\ [][TranscriptNext]_vars

(***************************************************************************)
(* The trigger endpoint (intake_api.schedule_intake_call) and make_call,   *)
(* up to the metadata parse of the job the dispatch creates.               *)
(***************************************************************************)
\* a make_call whose metadata leaves out the intake_id
MakeCallMetadata_NoIntake(args) ==
    MkDict(Absent, args.template_id, args.organization_id, args.patient_id,
           args.phone_number,
           IF ScalarTruthy(args.prefilled_greeting)
           THEN args.prefilled_greeting ELSE Absent)

\* make_call, lines 42-50: metadata_payload
MakeCallMetadata(args) ==
    MkDict(args.intake_id, args.template_id, args.organization_id,
           args.patient_id, args.phone_number,
           IF ScalarTruthy(args.prefilled_greeting)
           THEN args.prefilled_greeting ELSE Absent)

\* a request has reached the endpoint: the arguments it hands to make_call
\* and the SIP_OUTBOUND_TRUNK_ID read at import (unset, empty, a trunk
\* id, an id of another kind); no job exists yet
CallInit ==
    /\ InitAt({NoPayload}, "nojob")
    /\ store = InitialStore
    /\ worker = NoWorker /\ conversation = NoConversation
    /\ \E i \in {"i1", "i9"}, t \in {"t1", "t2"}, o \in {"o1", "o2"},
          p \in {"p1", "p2"},
          g \in {PyNone, PyStr(""), PyStr("Hello again")},
          trunk \in {NoneText, SomeText(<<>>), SomeText(<<"ST_", "x7">>),
                     SomeText(<<"PN_", "x7">>)} :
         call = [NoCall EXCEPT
                    !.pc = "phone",
                    !.args = MkDict(PyStr(i), PyStr(t), PyStr(o), PyStr(p),
                                    PyStr("+15550100"), g),
                    !.trunk = trunk]

\* make_call, lines 25-34: the caller id of the organization, ValueError
\* when there is none (get_organization_phone turns every failure into
\* None); then the LiveKit API connection. schedule_intake_call answers
\* every exception of make_call with 502.
MakeCallStart ==
    /\ call.pc = "phone"
    /\ \E phone \in BOOLEAN :
         call' = IF phone
                 THEN [call EXCEPT !.pc = "dispatch", !.connection = "open"]
                 ELSE [call EXCEPT !.pc = "raised", !.exc = "ValueError",
                                   !.response = "502"]
    /\ UNCHANGED <<metadata, langfuse, conversation, worker, pc, exc, idVars, enrichVars, nameVars,
                   stage1Vars, traceVars, voiceVars, hookVars, storeVars>>

\* make_call, lines 52-63: serialise the metadata and create the dispatch
MakeCallDispatch ==
    /\ call.pc = "dispatch"
    /\ \E ok \in BOOLEAN :
         call' = IF ok
                 THEN [call EXCEPT
                         !.pc = "dial",
                         !.dispatches =
                             Append(@, json_dumps(MakeCallMetadata(call.args)))]
                 ELSE [call EXCEPT !.pc = "raised", !.exc = "DispatchError",
                                   !.response = "502"]
    /\ UNCHANGED <<metadata, langfuse, conversation, worker, pc, exc, idVars, enrichVars, nameVars,
                   stage1Vars, traceVars, voiceVars, hookVars, storeVars>>

\* make_call, lines 67-87: an unusable trunk id closes the connection and
\* raises RuntimeError; a failure of create_sip_participant is logged
MakeCallDial ==
    /\ call.pc = "dial"
    /\ IF TextTruthy(call.trunk) /\ Head(call.trunk.text) = "ST_"
       THEN \E ok \in BOOLEAN :
              call' = [call EXCEPT
                         !.pc = "close",
                         !.participants = IF ok THEN @ + 1 ELSE @,
                         !.sip_failed = ~ok]
       ELSE call' = [call EXCEPT !.pc = "raised", !.exc = "RuntimeError",
                                 !.connection = "closed", !.response = "502"]
    /\ UNCHANGED <<metadata, langfuse, conversation, worker, pc, exc, idVars, enrichVars, nameVars,
                   stage1Vars, traceVars, voiceVars, hookVars, storeVars>>

\* make_call, lines 90-98, and schedule_intake_call, line 62: close the
\* connection, return the dispatch info, answer "queued"
MakeCallReturn ==
    /\ call.pc = "close"
    /\ call' = [call EXCEPT !.pc = "returned", !.connection = "closed",
                            !.response = "queued"]
    /\ UNCHANGED <<metadata, langfuse, conversation, worker, pc, exc, idVars, enrichVars, nameVars,
                   stage1Vars, traceVars, voiceVars, hookVars, storeVars>>

\* the job runtime starts the job of a dispatch: entrypoint is called with
\* the dispatch's metadata, as text or as its UTF-8 bytes
Deliver ==
    /\ pc = "nojob"
    /\ call.dispatches # <<>>
    /\ metadata' \in {StrPayload(call.dispatches[1]),
                       BytesPayload(call.dispatches[1], TRUE)}
    /\ pc' = "start"
    /\ UNCHANGED <<langfuse, conversation, call, worker, exc, idVars, enrichVars, nameVars,
                   stage1Vars, traceVars, voiceVars, hookVars, storeVars>>

CallSpec ==
    CallInit /\ [][MakeCallStart \/ MakeCallDispatch \/ MakeCallDial
                    \/ MakeCallReturn \/ Deliver \/ ParseAndValidate]_vars

(***************************************************************************)
(* A worker process with two jobs: the import of calling_agent, prewarm,   *)
(* and entrypoint run once for each job, each run with its own locals; the *)
(* jobs share the module globals, the tracing client and the intakes table.*)
(***************************************************************************)
\* entrypoint's locals and the single-session tracing are left alone
sessionVars == <<pc, exc, idVars, enrichVars, nameVars, stage1Vars, traceVars,
                 voiceVars, hookVars>>

WorkerInit ==
    /\ InitAt({NoPayload}, "nojob")
    /\ call = NoCall
    /\ worker = NoWorker /\ conversation = NoConversation
    /\ store = [id \in IntakeIds |->
                  [exists |-> TRUE, transcription |-> NoTranscript]]

\* line 104, at import: _vad_model = silero.VAD.load()
ImportModule ==
    /\ worker.pc = "unloaded"
    /\ worker' = [worker EXCEPT !.pc = "imported",
                                !.vad_loads = @ + 1,
                                !.vad_model = worker.vad_loads + 1]
    /\ UNCHANGED <<metadata, langfuse, conversation, call, sessionVars, storeVars>>

\* lines 107-110, prewarm: proc.userdata["vad"] = silero.VAD.load()
Prewarm ==
    /\ worker.pc = "imported"
    /\ worker' = [worker EXCEPT !.pc = "ready",
                                !.vad_loads = @ + 1,
                                !.userdata_vad = worker.vad_loads + 1]
    /\ UNCHANGED <<metadata, langfuse, conversation, call, sessionVars, storeVars>>

\* entrypoint of job s, lines 196-312: its intake_id, the names from its
\* two lookups, its instructions
JobDispatch(s) ==
    /\ worker.pc = "ready"
    /\ worker.jobs[s].pc = "new"
    /\ \E pa \in {Row(PyStr("Ann Lee")), DbError},
          oa \in {Row(PyStr("Oak Clinic")), DbError},
          template_data \in {NoTemplate} \cup TemplateRecords :
         worker' = [worker EXCEPT !.jobs[s] =
            [@ EXCEPT
               !.pc = "span",
               !.intake_id = PyStr(IF s = 1 THEN "i1" ELSE "i9"),
               !.patAnswer = pa,
               !.orgAnswer = oa,
               !.patient_name = PatientNameOf(fetch_patient(pa)),
               !.organization_name = OrganizationNameOf(fetch_organization(oa)),
               !.instructions = Stage1Instructions(template_data, pa, oa)]]
    /\ UNCHANGED <<metadata, langfuse, conversation, call, sessionVars, storeVars>>

\* entrypoint of job s, lines 314-377 and 448: the span open (span object
\* s of the client), the agent with the module's _vad_model, session.start
JobStart(s) ==
    /\ worker.jobs[s].pc = "span"
    /\ \E startOk \in BOOLEAN, updateOk \in BOOLEAN, started \in BOOLEAN :
         LET job == worker.jobs[s] IN
         worker' = [worker EXCEPT
            !.spans[s] = IF langfuse /\ startOk THEN "open" ELSE @,
            !.jobs[s] =
               [@ EXCEPT
                  !.pc = IF started THEN "live" ELSE "raised",
                  !.span = IF langfuse /\ startOk /\ updateOk THEN s ELSE 0,
                  !.agent = IntakeAgent(job.patient_name, job.organization_name,
                                        job.instructions),
                  !.vad = worker.vad_model]]
    /\ UNCHANGED <<metadata, langfuse, conversation, call, sessionVars, storeVars>>

\* on_enter of the agent of job s
JobGreet(s) ==
    /\ worker.jobs[s].pc = "live"
    /\ worker.jobs[s].said = <<>>
    /\ \E g \in 1..NumGreetings :
         LET a == worker.jobs[s].agent
             spoken == Greeting(g, a.agent_name, a.patient_name,
                                a.organization_name)
         IN worker' = [worker EXCEPT
                          !.jobs[s].said = <<spoken>>,
                          !.jobs[s].history = <<GreetingItem(spoken)>>]
    /\ UNCHANGED <<metadata, langfuse, conversation, call, sessionVars, storeVars>>

\* a hook that closes the span the process opened first
JobClose_FirstSpan(s) ==
    /\ worker.jobs[s].pc = "saved"
    /\ worker' = [worker EXCEPT
                     !.jobs[s].pc = "closed",
                     !.spans[1] = IF worker.jobs[s].span # 0 /\ langfuse
                                  THEN "ended" ELSE @]
    /\ UNCHANGED <<metadata, langfuse, conversation, call, sessionVars, storeVars>>

\* the hook of job s, lines 383-398: its history, saved under its intake_id
JobSave(s) ==
    /\ worker.jobs[s].pc = "live"
    /\ \E reachable \in BOOLEAN :
         LET job == worker.jobs[s]
             r == save_transcript_to_db(store, job.intake_id.s, job.history,
                                        reachable)
         IN /\ store' = r.store
            /\ writes' = Append(writes, UpdateStatement(job.intake_id,
                                                        job.history))
    /\ worker' = [worker EXCEPT !.jobs[s].pc = "saved",
                                !.jobs[s].transcript_data =
                                    worker.jobs[s].history]
    /\ UNCHANGED <<metadata, langfuse, conversation, call, sessionVars>>

\* the hook of job s, lines 420-445: the update and the end of its span
JobClose(s) ==
    /\ worker.jobs[s].pc = "saved"
    /\ worker' = IF worker.jobs[s].span # 0 /\ langfuse
                 THEN [worker EXCEPT !.jobs[s].pc = "closed",
                                     !.spans[worker.jobs[s].span] = "ended"]
                 ELSE [worker EXCEPT !.jobs[s].pc = "closed"]
    /\ UNCHANGED <<metadata, langfuse, conversation, call, sessionVars, storeVars>>

WorkerSpec ==
    WorkerInit /\ [][\/ ImportModule
                      \/ Prewarm
                      \/ (\E s \in Jobs : JobDispatch(s))
                      \/ (\E s \in Jobs : JobStart(s))
                      \/ (\E s \in Jobs : JobGreet(s))
                      \/ (\E s \in Jobs : JobSave(s))
                      \/ (\E s \in Jobs : JobClose(s))]_vars

(***************************************************************************)
(* state.ConversationState: the question cursor and the responses of a     *)
(* conversation over a template of up to MaxQuestions questions, under any *)
(* sequence of move_to_next_question and add_response calls.               *)
(***************************************************************************)
StateInit ==
    /\ InitAt({NoPayload}, "nojob")
    /\ store = InitialStore
    /\ call = NoCall
    /\ worker = NoWorker
    /\ \E n \in 0..MaxQuestions : conversation = ConversationState(TRUE, n)

\* lines 86-93: the current question, None when there is none
get_current_question(c) ==
    IF ~c.template_info \/ c.questions = <<>> THEN NoneText
    ELSE IF c.current_question_index < Len(c.questions)
    THEN SomeText(<<c.questions[c.current_question_index + 1]>>)
    ELSE NoneText

\* lines 99-103
is_conversation_complete(c) ==
    IF ~c.template_info THEN FALSE
    ELSE c.current_question_index >= Len(c.questions)

\* lines 105-109: the percentage as the fraction num / den
get_progress_percentage(c) ==
    IF ~c.template_info \/ c.questions = <<>> THEN [num |-> 0, den |-> 1]
    ELSE [num |-> c.current_question_index * 100, den |-> Len(c.questions)]

\* lines 95-97: self.current_question_index += 1
move_to_next_question ==
    /\ conversation.current_question_index < MaxMoves
    /\ conversation' = [conversation EXCEPT !.current_question_index = @ + 1]
    /\ UNCHANGED <<metadata, langfuse, call, worker, sessionVars, storeVars>>

\* lines 75-84: self.responses.append(response_obj)
add_response ==
    /\ Len(conversation.responses) < MaxResponses
    /\ \E follow_up_triggered \in BOOLEAN :
         conversation' = [conversation EXCEPT !.responses =
             Append(@, [question_id |-> ToString(Len(@) + 1),
                        follow_up_triggered |-> follow_up_triggered])]
    /\ UNCHANGED <<metadata, langfuse, call, worker, sessionVars, storeVars>>

StateSpec == StateInit /\ [][move_to_next_question \/ add_response]_vars

(***************************************************************************)
(* The intakes table under successive save_transcript calls: the hooks of  *)
(* sessions for either intake id, each with the transcript it read, write  *)
(* to one table.                                                           *)
(***************************************************************************)
\* the transcripts a hook may hold: an empty history, the greeting alone,
\* the greeting and an answer
PersistGreeting ==
    GreetingItem(Greeting(1, AGENT_NAME, DEFAULT_PATIENT_NAME,
                          DEFAULT_ORGANIZATION_NAME))
Transcripts ==
    {<<>>, <<PersistGreeting>>, <<PersistGreeting, Item("user", <<"I have a cough">>)>>}

\* the intakes table before any call: each id a record or none
PersistStores ==
    [IntakeIds -> {[exists |-> e, transcription |-> NoTranscript] : e \in BOOLEAN}]

PersistInit ==
    /\ InitSession({StrPayload(json_dumps(ValidDict(PyStr("i1"))))})
    /\ store \in PersistStores

\* lines 388-396 with db_utils.save_transcript: one call
Persist ==
    /\ Len(writes) < MaxPersists
    /\ \E id \in IntakeIds, data \in Transcripts, reachable \in BOOLEAN :
         LET r == save_transcript_to_db(store, id, data, reachable) IN
         /\ store' = r.store
         /\ success' = r.success
         /\ writes' = Append(writes, UpdateStatement(PyStr(id), data))
    /\ UNCHANGED <<envVars, pc, exc, idVars, enrichVars, nameVars,
                   stage1Vars, traceVars, voiceVars, hookRegistered, hookPc,
                   transcript_data, transcript_text>>

PersistNext == Persist
PersistSpec == PersistInit /\ [][PersistNext]_vars

(***************************************************************************)
(* What the specification of the repository adds to the vocabulary: the    *)
(* text a prompt-template store returns and the directive appended after a *)
(* prefilled greeting.  The source holds neither.                          *)
(***************************************************************************)
CompiledPromptText == <<"the text compiled by the prompt-template store">>
SkipReintroductionDirective ==
    <<"Do not repeat the introduction; wait for the patient's reply.">>

\* text ends with suffix
EndsWith(text, suffix) ==
    /\ Len(text) >= Len(suffix)
    /\ SubSeq(text, Len(text) - Len(suffix) + 1, Len(text)) = suffix

(***************************************************************************)
(* Properties.                                                             *)
(***************************************************************************)
\* the session holds a span at shutdown
HoldsSpan == span # "None" /\ langfuse
\* the hook asked for a store write and it reported failure
WriteFailed == success = "False"
\* the hook ended without reaching the store write although an id was
\* there: reading the history raised
HistoryRaised ==
    hookPc \in {"end", "flush", "done"} /\ ScalarTruthy(intake_id)
    /\ success = "unset"
IdsMissing == MissingRequired(template_id, organization_id, patient_id)

\* C1: when the shutdown hook has run and the session holds an open span
\* (the span entrypoint kept from the span open), the hook has called
\* span.end() once, and, the end having returned, has called flush once:
\* whether the history read raised, the store write reported failure
\* (db_utils turns a raising write into False) or all went well.
C1_SpanClosedWhenPersistenceFails ==
    (hookPc = "done" /\ HoldsSpan) =>
        /\ tracing.ends = 1
        /\ (tracing.ended => tracing.flushes = 1)

C1_Witness ==
    /\ hookPc = "done" /\ HoldsSpan /\ WriteFailed
    /\ tracing.ends = 1 /\ tracing.ended /\ tracing.flushes = 1

\* C2: for a session that holds a span, end and flush are never called
\* twice, are called only in Shutdown, and by the time the session is Closed
\* end has been called exactly once (and flush exactly once after an end
\* that returned), whichever earlier step of the hook failed.
C2_EndAndFlushExactlyOnce ==
    HoldsSpan =>
        /\ tracing.ends <= 1 /\ tracing.flushes <= 1
        /\ tracing.flushes <= tracing.ends
        /\ (tracing.ends > 0 => Stage \in {"Shutdown", "Closed"})
        /\ (Stage = "Closed" =>
              tracing.ends = 1 /\ (tracing.ended => tracing.flushes = 1))

C2_Witness ==
    /\ Stage = "Closed" /\ HoldsSpan /\ HistoryRaised
    /\ tracing.ends = 1 /\ tracing.flushes = 1

\* C3: for every payload the parse ends with the ids or with the
\* missing-required-metadata ValueError, the ValueError exactly when a
\* required id is absent or empty, and no other exception leaves it.
C3_ParseRaisesOnlyValueError ==
    pc # "start" =>
        /\ exc \in {"none", "ValueError"}
        /\ (exc = "ValueError") <=> IdsMissing

\* C4: a payload that lacks a required id (no payload, or a mapping without
\* patient_id, with an empty template_id or a null organization_id) ends
\* the session with the ValueError, and a session ended by it has
\* constructed no AgentSession and no agent, started no voice session,
\* spoken nothing, registered no hook: it never left DispatchFetch.
C4_AbortBeforeGreeting ==
    /\ (metadata \in PayloadsLackingId /\ pc # "start") => exc = "ValueError"
    /\ exc = "ValueError" =>
          /\ pc = "raised" /\ Stage = "Aborted"
          /\ ~voice.constructed /\ ~voice.started /\ ~agent.made
          /\ onEnter = "idle" /\ said = <<>>
          /\ ~hookRegistered /\ hookPc = "idle"

C4_Witness ==
    metadata = NoPatientPayload /\ exc = "ValueError" /\ pc = "raised"

\* C5: a lookup or an instruction fetch has started only in a session whose
\* three required ids have passed validation.
FetchStarted ==
    \/ patTask # "unscheduled"
    \/ orgTask # "unscheduled"
    \/ stores.prompt # "unasked"
C5_ValidationBeforeFetch ==
    FetchStarted =>
        /\ ScalarTruthy(template_id)
        /\ ScalarTruthy(organization_id)
        /\ ScalarTruthy(patient_id)
        /\ pc # "start"

C5_Witness ==
    patTask = "running" /\ orgTask = "pending" /\ ~IdsMissing

\* the name a lookup's answer stands for, the default when there is none
NameIn(answer, default) ==
    IF answer.kind = "row" /\ answer.name.ty = "str" /\ answer.name.s # ""
    THEN answer.name.s ELSE default

\* C6: once the enrichment has returned, for every pair of answers of the
\* two lookups, patient_name is the fetched full_name when there is a
\* non-empty one and the default otherwise, organization_name likewise,
\* each from its own lookup alone, and no error has left the step.
EnrichmentReturned ==
    patTask = "done" /\ orgTask = "done" /\ pc # "joining"
C6_EnrichmentDefaults ==
    EnrichmentReturned =>
        /\ patient_name = NameIn(patAnswer, DEFAULT_PATIENT_NAME)
        /\ organization_name = NameIn(orgAnswer, DEFAULT_ORGANIZATION_NAME)
        /\ exc \in {"none", "SessionStartError"}

C6_Witness ==
    /\ pc = "stage1" /\ patAnswer = DbError /\ orgAnswer.kind = "row"
    /\ patient_name = DEFAULT_PATIENT_NAME /\ organization_name = "Oak Clinic"

\* C7: the two lookups are scheduled concurrently: while the patient lookup
\* is in flight the organization lookup can start; and the join is passed
\* only with both lookups done.
C7_LookupsConcurrent ==
    /\ (patTask = "running" /\ orgTask = "pending") =>
          ENABLED OrganizationLookupStart
    /\ pc \notin {"start", "gather", "joining"} /\ exc \notin {"ValueError", "AttributeError"}
          => patTask = "done" /\ orgTask = "done"

\* both lookups in flight at the same time: no reachable state is one
BothInFlight == patTask = "running" /\ orgTask = "running"
NeverBothInFlight == ~BothInFlight

\* C8: with the prompt-template store and the template record fetch both
\* failing, the agent is constructed with exactly the static fallback
\* script, which is not empty.
BothStoresFail == stores.prompt = "fail" /\ ~stores.template.found
C8_FallbackWhenBothStoresFail ==
    (agent.made /\ BothStoresFail) =>
        /\ agent.instructions = get_fallback_instructions
        /\ agent.instructions # <<>>

C8_Witness ==
    /\ voice.started /\ agent.made /\ BothStoresFail
    /\ agent.instructions = get_fallback_instructions

\* C9: when the prompt-template store returns compiled text, the agent is
\* constructed with that text, with or without the greeting directive
\* after it.
C9_PromptStoreTextVerbatim ==
    (agent.made /\ stores.prompt = "text") =>
        agent.instructions \in
            {CompiledPromptText, CompiledPromptText \o SkipReintroductionDirective}

\* C10: a prefilled greeting having been given to the instruction compiler
\* (Stage 1 always gives one), the instructions of the agent end with the
\* skip-reintroduction directive.
C10_DirectiveAppended ==
    (agent.made /\ temp_greeting # NoGreeting) =>
        EndsWith(agent.instructions, SkipReintroductionDirective)

\* C11: when the prompt-template store fails and the template record fetch
\* succeeds, the agent is constructed with the script rendered from that
\* record (its questions numbered 1..N in their stored order and its
\* instructions_for_ai, for some patient and organization data), and not
\* with the static default script.
TemplateOnly == stores.prompt = "fail" /\ stores.template.found
C11_TemplateScriptWhenPromptStoreFails ==
    (agent.made /\ TemplateOnly) =>
        /\ \E p \in PatientAnswers, o \in OrganizationAnswers :
              agent.instructions = RenderInstructions(stores.template, p, o)
        /\ agent.instructions # get_fallback_instructions

\* C12: in every session that has reached Greeting the agent was
\* constructed with a non-empty instruction text, whether the instruction
\* call returned a script, an empty string or None, or raised; what it
\* holds is the returned script when there is a non-empty one and the
\* static default script otherwise.
C12_InstructionsNeverEmpty ==
    voice.started =>
        /\ agent.made
        /\ agent.instructions # <<>>
        /\ agent.instructions =
              IF instructions.isNone \/ instructions.text = <<>>
              THEN get_fallback_instructions ELSE instructions.text

C12_Witness ==
    /\ voice.started /\ instructions = SomeText(<<>>)
    /\ agent.instructions = get_fallback_instructions

\* C13: in a session whose metadata carries no intake_id (the key absent,
\* null or an empty string) the record store receives no write: the hook
\* skips the save, leaves every record as it was, and goes on to its
\* remaining steps with no exception having left entrypoint or the hook.
C13_NoIntakeIdNoWrite ==
    (metadata \in NoIntakePayloads /\ pc # "start") =>
        /\ ~ScalarTruthy(intake_id)
        /\ writes = <<>> /\ store = InitialStore /\ success = "unset"
        /\ (hookPc # "idle" => exc = "none")

C13_Witness ==
    /\ metadata = StrPayload(json_dumps(ValidDict(PyNone)))
    /\ hookPc = "done" /\ Len(transcript_data) > 1
    /\ writes = <<>> /\ store = InitialStore

\* C14: the span is updated at Shutdown only when its open (start_span and
\* the update_trace of the open) came before; span.end() is called only
\* when the hook is past the store write (done, skipped, or given up
\* after a logged failure), and no store write and no span update is made
\* once span.end() has been called.
SpanUpdated == tracing'.updates # tracing.updates
SpanEndCalled == tracing'.ends # tracing.ends
StoreWritten == writes' # writes
C14_SpanOrdering ==
    /\ [](tracing.updates > 0 =>
            tracing.starts = 1 /\ tracing.openUpdates = 1 /\ span = "span")
    /\ [](tracing.ends > 0 => hookPc \in {"flush", "done"})
    /\ [][/\ SpanUpdated => (hookPc = "update" /\ tracing.ends = 0
                                /\ tracing'.ends = 0)
          /\ SpanEndCalled => (hookPc = "end" /\ tracing.ends = 0)
          /\ StoreWritten => (hookPc = "save" /\ tracing.ends = 0
                                /\ tracing'.ends = 0)]_vars

C14_Witness ==
    /\ hookPc = "done" /\ tracing.openUpdates = 1 /\ Len(writes) = 1
    /\ success = "True" /\ tracing.updates = 1 /\ tracing.ends = 1

\* C15: in a session whose metadata carries intake_id i and whose two
\* lookups both fail (the query raises or finds no row), every greeting
\* spoken is one of the greeting templates filled with the default patient
\* and organization names, and the record store receives at most one
\* write, made by the hook at its save step: an update keyed by i that
\* carries the structured transcript the hook read, which leaves every
\* record other than i as it was and sets the transcription of record i; a hook that ends having read the
\* history has made exactly that one write.
LookupFailed(answer) == answer.kind # "row"
BothLookupsFailed ==
    /\ patTask = "done" /\ orgTask = "done"
    /\ LookupFailed(patAnswer) /\ LookupFailed(orgAnswer)
DefaultGreetings ==
    {Greeting(g, AGENT_NAME, DEFAULT_PATIENT_NAME, DEFAULT_ORGANIZATION_NAME) :
        g \in 1..NumGreetings}
C15_DefaultsAndKeyedWrite ==
    \A i \in IntakeIds :
        (intake_id = PyStr(i) /\ BothLookupsFailed) =>
            /\ \A k \in 1..Len(said) : said[k] \in DefaultGreetings
            /\ writes \in {<<>>, <<UpdateStatement(PyStr(i), transcript_data)>>}
            /\ (writes # <<>>) <=> (success # "unset")
            /\ writes # <<>> => hookPc \in {"flatten", "update", "end", "flush", "done"}
            /\ \A other \in IntakeIds \ {i} : store[other] = InitialStore[other]
            /\ store[i].exists = InitialStore[i].exists
            /\ success = "True" => store[i].transcription = transcript_data
            /\ success # "True" => store[i] = InitialStore[i]
            /\ (hookPc = "done" /\ ~HistoryRaised) => writes # <<>>

C15_Witness ==
    /\ intake_id = PyStr("i1") /\ patAnswer = DbError /\ orgAnswer = DbError
    /\ hookPc = "done" /\ said \in Seq(DefaultGreetings) /\ Len(said) = 1
    /\ Len(writes) = 1 /\ success = "True" /\ Len(history) > 1
    /\ store["i1"].transcription = history

\* C16: a save_transcript call for an id changes no record with another
\* id and creates none; when it succeeds the transcription of the record
\* is exactly the transcript of this call, whatever was stored before
\* (replaced, not added to), and when it fails the table is as it was; a
\* call that repeats the statement of a call that succeeded just before
\* leaves the table as that call left it.
C16_IdempotentOverwrite ==
    [][Len(writes') = Len(writes) + 1 =>
         LET w == writes'[Len(writes')]
             id == w.id.s
         IN /\ \A other \in IntakeIds \ {id} : store'[other] = store[other]
            /\ store'[id].exists = store[id].exists
            /\ success' = "True" => store'[id].transcription = w.data
            /\ success' # "True" => store' = store
            /\ (writes # <<>> /\ writes[Len(writes)] = w /\ success = "True")
                  => store' = store]_vars

\* the same transcript persisted twice, then a later one for the same id
C16_Witness ==
    /\ Len(writes) = 3 /\ writes[1] = writes[2]
    /\ writes[1].data = <<PersistGreeting>>
    /\ writes[3].id = writes[2].id /\ Len(writes[3].data) = 2
    /\ success = "True"
    /\ store[writes[3].id.s].transcription = writes[3].data

\* C17: every step of a session leaves its stage where it is or moves it
\* forward in the order DispatchFetch, Greeting, ActiveIntake, Shutdown,
\* Closed; a session is aborted only out of DispatchFetch; and a session
\* that is Closed or aborted takes no step.
StageRank(stage) ==
    CASE stage = "DispatchFetch" -> 0
      [] stage = "Greeting" -> 1
      [] stage = "ActiveIntake" -> 2
      [] stage = "Shutdown" -> 3
      [] stage = "Closed" -> 4
      [] OTHER -> 5
C17_StageForwardOnly ==
    [][/\ Stage \notin {"Closed", "Aborted"}
       /\ StageRank(Stage') >= StageRank(Stage)
       /\ (Stage' = "Aborted" => Stage = "DispatchFetch")]_vars

C17_Witness ==
    /\ Stage = "Closed" /\ voice.started /\ said # <<>>
    /\ Len(history) > 1 /\ pc = "returned"

\* C18: in a session whose ids have passed validation, no exception leaves
\* entrypoint before session.start is called, whatever the two lookups,
\* the instruction call and the span open did; entrypoint reaches the
\* session.start call, and the agent it starts holds the fetched names or
\* the defaults, a non-empty script, and a span only when the open
\* succeeded. The one exception that can leave is that of session.start.
IdsValidated == pc # "start" /\ ~IdsMissing
C18_DegradeNotAbort ==
    IdsValidated =>
        /\ exc \in {"none", "SessionStartError"}
        /\ exc = "SessionStartError" => (voice.constructed /\ ~voice.started)
        /\ (pc = "raised") <=> (exc = "SessionStartError")
        /\ pc = "session" => ENABLED SessionStart
        /\ voice.constructed =>
              /\ agent.made
              /\ agent.patient_name = NameIn(patAnswer, DEFAULT_PATIENT_NAME)
              /\ agent.organization_name =
                    NameIn(orgAnswer, DEFAULT_ORGANIZATION_NAME)
              /\ agent.instructions # <<>>
              /\ (span = "span") <=> (tracing.openUpdates = 1)

\* every dispatch-time step failed and the voice session started
C18_Witness ==
    /\ IdsValidated /\ voice.started /\ exc = "none"
    /\ patAnswer = DbError /\ orgAnswer = DbError
    /\ instructions = NoneText /\ langfuse /\ tracing.starts = 0
    /\ span = "None"
    /\ agent.patient_name = DEFAULT_PATIENT_NAME
    /\ agent.organization_name = DEFAULT_ORGANIZATION_NAME
    /\ agent.instructions = get_fallback_instructions

\* C19: session.start has been called only in a session whose metadata
\* parse and validation, two lookups and Stage 1 instruction call have all
\* returned; and while the parse, a lookup or the instruction call has not
\* returned, no AgentSession exists, none has started, and the session is
\* in DispatchFetch.
LookupInFlight ==
    patTask \in {"pending", "running"} \/ orgTask \in {"pending", "running"}
DispatchCallOutstanding ==
    pc \in {"start", "gather", "joining", "stage1"} \/ LookupInFlight
C19_StartAfterDispatchFetch ==
    /\ voice.constructed =>
          /\ IdsValidated
          /\ patTask = "done" /\ orgTask = "done"
          /\ stores.prompt # "unasked" /\ temp_greeting # NoGreeting
          /\ pc \in {"register", "returned", "raised"}
    /\ DispatchCallOutstanding =>
          /\ ~voice.constructed /\ ~voice.started /\ ~agent.made
          /\ onEnter = "idle" /\ said = <<>>
          /\ Stage = "DispatchFetch"

C19_Witness ==
    /\ Stage = "Greeting" /\ voice.started /\ onEnter = "entered"
    /\ patTask = "done" /\ orgTask = "done" /\ stores.prompt # "unasked"
    /\ patAnswer.kind = "row" /\ orgAnswer.kind = "row"

\* C20: the shutdown callback is registered by a step taken after
\* session.start has returned (the session is in Greeting or beyond), so
\* a registered callback belongs to a session whose entrypoint has
\* returned with every dispatch-time call done, and the hook has left its
\* idle position only in such a session.
C20_HookRegisteredAfterGreeting ==
    /\ [](hookRegistered =>
            /\ voice.started /\ pc = "returned" /\ exc = "none"
            /\ ~DispatchCallOutstanding /\ stores.prompt # "unasked")
    /\ [](hookPc # "idle" =>
            hookRegistered /\ ~LookupInFlight /\ Stage \in {"Shutdown", "Closed"})
    /\ [][hookRegistered' # hookRegistered =>
            /\ voice.started /\ pc = "register"
            /\ Stage \in {"Greeting", "ActiveIntake"}]_vars

C20_Witness ==
    /\ hookRegistered /\ hookPc = "save" /\ voice.started
    /\ patTask = "done" /\ orgTask = "done" /\ said = <<>>

\* C21: once the disconnect has called the hook of a session whose voice
\* session started, the hook comes to its end with the store write asked
\* for (or given up because reading the history raised) and, when the
\* session holds a span, span.end() called once: whether the greeting had
\* been spoken, was still waiting, or the conversation was under way.
HookCalled == voice.started /\ hookPc = "history"
ShutdownComplete ==
    /\ hookPc = "done"
    /\ (writes # <<>> \/ HistoryRaised)
    /\ (HoldsSpan => tracing.ends = 1)
C21_DisconnectLeadsToShutdown == HookCalled ~> ShutdownComplete

\* the disconnect came while on_enter was still in its pause
C21_Witness ==
    /\ ShutdownComplete /\ onEnter = "sleeping" /\ said = <<>>
    /\ HoldsSpan /\ writes # <<>>

\* C22: the endpoint has answered "queued" only when the agent dispatch
\* and the SIP participant were both created, and every call in which
\* make_call raised or a creation failed is answered 502.
C22_QueuedOnlyWhenBothCreated ==
    /\ call.response = "queued" =>
          (Len(call.dispatches) = 1 /\ call.participants = 1)
    /\ (call.pc \in {"returned", "raised"}
          /\ (call.exc # "none" \/ call.sip_failed)) => call.response = "502"

\* C23: in a session with no tracing client there is never a span and the
\* tracing client receives no call (no start, update, end, flush), and no
\* exception leaves entrypoint but that of session.start; and in every
\* session, with a client or without, the agent, the greetings spoken and
\* the store write are what the names, the instructions, the intake_id
\* and the transcript make them, the same whatever the tracing did.
C23_TracingDisabledIsTransparent ==
    /\ ~langfuse =>
          /\ span = "None" /\ tracing = NoTracing
          /\ IdsValidated => exc \in {"none", "SessionStartError"}
    /\ agent.made =>
          agent = IntakeAgent(patient_name, organization_name, instructions)
    /\ \A k \in 1..Len(said) :
          \E g \in 1..NumGreetings :
             said[k] = Greeting(g, AGENT_NAME, patient_name, organization_name)
    /\ writes \in {<<>>, <<UpdateStatement(intake_id, transcript_data)>>}
    /\ (hookPc \in {"flatten", "update", "end", "flush", "done"}
          /\ ScalarTruthy(intake_id) /\ ~HistoryRaised) => writes # <<>>
    /\ store \in {InitialStore} \cup
          {[InitialStore EXCEPT ![i].transcription = transcript_data] :
              i \in IntakeIds}

C23_Witness ==
    /\ ~langfuse /\ Stage = "Closed" /\ tracing = NoTracing
    /\ said # <<>> /\ success = "True" /\ Len(history) > 1

\* C24: with two jobs in one process, under every interleaving of their
\* steps, the agent of a job holds the names and the instructions of that
\* job's own lookups and speaks its greeting with them; the span a job
\* holds is the one it opened, and a span is ended only by the hook of
\* the job that opened it; the statements the intakes table has executed
\* are those of the jobs' own hooks, each keyed by the job's intake_id
\* and carrying that job's history, and the record of a job holds nothing
\* but that history; the _vad_model both agents are given is never
\* assigned after the import.
JobIsolated(s) ==
    LET job == worker.jobs[s] IN
    /\ job.agent.made =>
          /\ job.agent.patient_name = NameIn(job.patAnswer, DEFAULT_PATIENT_NAME)
          /\ job.agent.organization_name =
                NameIn(job.orgAnswer, DEFAULT_ORGANIZATION_NAME)
          /\ job.agent.instructions = FinalInstructions(job.instructions)
          /\ job.vad = worker.vad_model
    /\ \A k \in 1..Len(job.said) :
          \E g \in 1..NumGreetings :
             job.said[k] = Greeting(g, AGENT_NAME, job.agent.patient_name,
                                    job.agent.organization_name)
    /\ job.span \in {0, s}
    /\ worker.spans[s] = "ended" => (job.pc = "closed" /\ job.span = s)
    /\ (job.pc = "closed" /\ job.span = s) => worker.spans[s] = "ended"
    /\ job.pc # "new" =>
          store[job.intake_id.s].transcription
              \in {NoTranscript, job.transcript_data}
C24_SessionsIsolated ==
    /\ [](\A s \in Jobs : JobIsolated(s))
    /\ [](\A k \in 1..Len(writes) :
            \E s \in Jobs :
               /\ worker.jobs[s].pc \in {"saved", "closed"}
               /\ writes[k] = UpdateStatement(worker.jobs[s].intake_id,
                                              worker.jobs[s].transcript_data))
    /\ [](Len(writes) <= Cardinality(Jobs))
    /\ [][worker.pc # "unloaded" =>
            (worker'.vad_model = worker.vad_model /\ langfuse' = langfuse)]_vars

\* both jobs are closed, each with its own name, span and record
C24_Witness ==
    /\ worker.jobs[1].pc = "closed" /\ worker.jobs[2].pc = "closed"
    /\ worker.jobs[1].agent.patient_name = "Ann Lee"
    /\ worker.jobs[2].agent.patient_name = DEFAULT_PATIENT_NAME
    /\ worker.spans[1] = "ended" /\ worker.spans[2] = "ended"
    /\ store["i1"].transcription = worker.jobs[1].history
    /\ store["i9"].transcription = worker.jobs[2].history
    /\ worker.jobs[1].history # <<>>
    /\ worker.jobs[1].history # worker.jobs[2].history

(***************************************************************************)
(* C25: what the session speaks is one of the GREETING_VARIATIONS filled   *)
(* with the agent name and the patient and organization names the session  *)
(* resolved; nothing is spoken before on_enter's sleep is over, the step   *)
(* that speaks is the one that ends the sleep, and an on_enter that has    *)
(* finished has spoken exactly one greeting.                               *)
(***************************************************************************)
SessionGreetings ==
    {Greeting(g, AGENT_NAME, patient_name, organization_name) :
        g \in 1..NumGreetings}

C25_OneGreetingAfterPause ==
    /\ [](/\ Len(said) <= 1
          /\ onEnter \in {"idle", "entered", "sleeping"} => said = <<>>
          /\ onEnter = "done" => Len(said) = 1
          /\ said # <<>> => said[1] \in SessionGreetings)
    /\ [][said' # said => (onEnter = "sleeping" /\ onEnter' = "done"
                           /\ said' = <<greeting>>)]_vars

\* the greeting was spoken to a patient whose record was found
C25_Witness ==
    /\ onEnter = "done"
    /\ Len(said) = 1
    /\ patient_name = "Ann Lee"
    /\ said[1] \in SessionGreetings

(***************************************************************************)
(* C26: with a tracing client configured, the span open comes first in     *)
(* DispatchFetch: once an enrichment lookup has been started or the        *)
(* instruction compilation has asked the prompt store, entrypoint has      *)
(* already passed its span open.                                           *)
(***************************************************************************)
SpanOpenPassed == pc \notin {"start", "gather", "joining", "stage1", "span"}

C26_SpanOpenedAtEntry ==
    (langfuse /\ FetchStarted) => SpanOpenPassed

(***************************************************************************)
(* C27: when an instruction tier fails (no template record, a transport    *)
(* error, or a record whose questions are null or hold an entry that is no *)
(* mapping), Stage 1 ends without an exception, the session goes on, and   *)
(* the agent is constructed with the static default script.                *)
(***************************************************************************)
TierFailed == stores.template = NoTemplate \/ RenderRaises(stores.template)

C27_TierFailureFallsThrough ==
    /\ []((pc # "stage1" /\ TierFailed) =>
            /\ instructions \in {NoneText, SomeText(get_fallback_instructions)}
            /\ exc \in {"none", "SessionStartError"}
            /\ voice.constructed =>
                   agent.instructions = get_fallback_instructions)
    /\ [][pc = "stage1" => (pc' = "span" /\ exc' = exc)]_vars

\* a session started on the default script after a record with null
\* questions
C27_Witness ==
    /\ stores.template \in MalformedTemplates
    /\ stores.template.questions_ty = "null"
    /\ voice.started
    /\ agent.instructions = get_fallback_instructions

(***************************************************************************)
(* C28: the store is given the structured transcript (the history as the   *)
(* hook read it) and never the flattened text, which goes only to the      *)
(* trace, next to the structured transcript; the flattened text has one    *)
(* line for each item with non-empty text, in the order of the items, each *)
(* with the capitalised role ("Unknown" when the item has no role) and the *)
(* stripped text, and no line for an item without text.                    *)
(***************************************************************************)
FlattenDone ==
    hookPc = "update" \/ tracing.updates > 0 \/ transcript_text # <<>>

LinesFollowItems ==
    LET textful == {i \in DOMAIN transcript_data :
                       ItemHasText(transcript_data[i])}
        n == Len(transcript_text)
    IN /\ n = Cardinality(textful)
       /\ \E f \in [1..n -> textful] :
             /\ \A j, k \in 1..n : j < k => f[j] < f[k]
             /\ \A k \in 1..n :
                   LET item == transcript_data[f[k]]
                       line == transcript_text[k]
                   IN /\ line.role = RoleLabel(item.role)
                      /\ (line.role = "Unknown") <=> (item.role = "")
                      /\ line.text = StripText(ItemText(item))
                      /\ line.greeting = item.greeting

C28_StoreStructuredTraceFlattened ==
    /\ \A k \in DOMAIN writes :
          writes[k].data = transcript_data /\ transcript_data = history
    /\ \A id \in IntakeIds :
          store[id].transcription \in {NoTranscript, transcript_data}
    /\ tracing.updates > 0 =>
          /\ tracing.output = transcript_data
          /\ tracing.transcript_text = transcript_text
    /\ FlattenDone => LinesFollowItems

\* a saved and traced history with an item without role and an item
\* without text
C28_Witness ==
    /\ hookPc = "done" /\ success = "True" /\ tracing.updates = 1
    /\ Len(transcript_data) = 3 /\ Len(transcript_text) = 2
    /\ transcript_data[2] = TypedItem("system", "other", <<"7">>)
    /\ transcript_text[2].role = "Unknown"
    /\ store["i1"].transcription = transcript_data

(***************************************************************************)
(* C29: the metadata make_call serialises for non-empty template_id,       *)
(* organization_id, patient_id and intake_id strings is parsed by          *)
(* entrypoint, without an exception, into the same four ids, whether the   *)
(* job carries it as text or as UTF-8 bytes and whether or not             *)
(* make_call was given a prefilled_greeting.                               *)
(***************************************************************************)
MetadataParsed == pc \notin {"nojob", "start"}

C29_MetadataRoundTrip ==
    MetadataParsed =>
        /\ exc = "none" /\ pc = "gather"
        /\ template_id = call.args.template_id
        /\ organization_id = call.args.organization_id
        /\ patient_id = call.args.patient_id
        /\ intake_id = call.args.intake_id

\* the ids came back from bytes that carried a prefilled_greeting
C29_Witness ==
    /\ MetadataParsed
    /\ metadata.kind = "bytes"
    /\ ScalarTruthy(call.args.prefilled_greeting)
    /\ intake_id = PyStr("i9") /\ template_id = PyStr("t2")
    /\ organization_id = PyStr("o1") /\ patient_id = PyStr("p2")

(***************************************************************************)
(* C30: a worker process that has imported the module has constructed the  *)
(* voice-activity-detection resource exactly once, and the instance its    *)
(* sessions are given is the only one the process holds.                   *)
(***************************************************************************)
C30_VadLoadedOnce ==
    worker.pc # "unloaded" =>
        /\ worker.vad_loads = 1
        /\ worker.userdata_vad \in {0, worker.vad_model}

(***************************************************************************)
(* C31: a session ends DispatchFetch in one of two ways only: it aborts    *)
(* with the validation error, or it goes on to open the voice channel.  In *)
(* finite form: an entrypoint that an exception has left was left by the   *)
(* validation ValueError, unless it had already reached session.start.     *)
(***************************************************************************)
C31_AbortsOrReachesGreeting ==
    pc = "raised" => (exc = "ValueError" \/ voice.constructed)

(***************************************************************************)
(* C32: the shutdown hook never raises to its caller.  Whichever step      *)
(* fails (the history read, the store write, the flattening, the span      *)
(* update, the span end, the flush), the hook has a next step until it has *)
(* returned, it never ends by an exception, and entrypoint's own outcome   *)
(* is left alone.                                                          *)
(***************************************************************************)
HookStep ==
    HookHistory \/ HookSave \/ HookFlatten \/ HookUpdate \/ HookEnd \/ HookFlush

C32_HookNeverRaises ==
    /\ [](hookPc \in {"idle", "history", "save", "flatten", "update", "end",
                      "flush", "done"})
    /\ [](hookPc \notin {"idle", "done"} => ENABLED HookStep)
    /\ [][hookPc # "idle" => exc' = exc]_vars

\* a hook that returned after its store write, its span update and its
\* flush had all failed
C32_Witness ==
    /\ hookPc = "done"
    /\ success = "False"
    /\ tracing.updates = 1 /\ ~tracing.updated
    /\ tracing.flushes = 1 /\ ~tracing.flushed

(***************************************************************************)
(* C33: a span that start_span returned is ended by Shutdown, also when    *)
(* the update of its trace attributes failed right after the start: a hook *)
(* that has returned has called span.end() on every started span.          *)
(***************************************************************************)
C33_StartedSpanIsEnded ==
    (hookPc = "done" /\ tracing.starts > 0) => tracing.ends = tracing.starts

(***************************************************************************)
(* C34: no exit of entrypoint leaves an opened span without a registered   *)
(* cleanup: when entrypoint has ended, by its return or by an exception of *)
(* session.start, while holding a span, the shutdown hook that ends and    *)
(* flushes the span is registered.                                         *)
(***************************************************************************)
C34_OpenedSpanHasCleanup ==
    (pc \in {"raised", "returned"} /\ HoldsSpan) => hookRegistered

(***************************************************************************)
(* C35: a session that aborted with the validation error has opened no     *)
(* span: the tracing client has received no call and entrypoint holds no   *)
(* span, so nothing is left open.                                          *)
(***************************************************************************)
C35_AbortLeavesNoSpan ==
    exc = "ValueError" =>
        /\ span = "None"
        /\ tracing = NoTracing

\* an abort in a process whose tracing client is configured
C35_Witness ==
    /\ langfuse
    /\ exc = "ValueError" /\ pc = "raised"
    /\ metadata = NullOrganizationPayload

(***************************************************************************)
(* C36: the greeting spoken in the Greeting stage is the greeting Stage 1  *)
(* handed to the instruction compiler: same template, same names.          *)
(***************************************************************************)
C36_SpokenGreetingIsCompiledGreeting ==
    said # <<>> => said[1] = temp_greeting

(***************************************************************************)
(* C37: make_call is all-or-nothing for the remote job: whenever it has    *)
(* raised, no agent dispatch is left created for the call.                 *)
(***************************************************************************)
C37_RaiseLeavesNoDispatch ==
    call.pc = "raised" => call.dispatches = <<>>

(***************************************************************************)
(* C38: a LiveKit API connection make_call has opened is closed when       *)
(* make_call ends, by its return or by any exception.                      *)
(***************************************************************************)
C38_ConnectionClosedOnExit ==
    call.pc \in {"raised", "returned"} => call.connection # "open"

(***************************************************************************)
(* C39: persistence never creates a record.  When the intakes table holds  *)
(* no record with the session's intake_id, the save leaves the table as it *)
(* was and returns False, and the hook goes on: it builds the flattened    *)
(* text, updates the span and closes it.                                   *)
(***************************************************************************)
NoIntakeRecord == ScalarTruthy(intake_id) /\ ~store[intake_id.s].exists

C39_NoRecordNoWrite ==
    /\ [](\A id \in IntakeIds :
             ~InitialStore[id].exists => store[id] = InitialStore[id])
    /\ [][(hookPc = "save" /\ NoIntakeRecord) =>
             (store' = store /\ success' = "False" /\ hookPc' = "flatten")]_vars
    /\ []((NoIntakeRecord /\ success = "False" /\ hookPc = "done" /\ HoldsSpan) =>
             /\ tracing.ends = 1
             /\ transcript_text # <<>> => tracing.updates = 1)

\* a hook that found no record, updated the span and closed it
C39_Witness ==
    /\ NoIntakeRecord /\ intake_id = PyStr("i9")
    /\ hookPc = "done" /\ success = "False" /\ Len(writes) = 1
    /\ store = InitialStore
    /\ tracing.updates = 1 /\ tracing.ends = 1 /\ tracing.ended

(***************************************************************************)
(* C40: on a ConversationState with a template of N questions, after any   *)
(* sequence of move_to_next_question and add_response calls, the index of  *)
(* the current question is within 0..N, the progress percentage is within  *)
(* 0..100, and get_current_question returns None exactly when              *)
(* is_conversation_complete is true.                                       *)
(***************************************************************************)
C40_QuestionIndexInRange ==
    conversation.template_info =>
        LET n == Len(conversation.questions)
            progress == get_progress_percentage(conversation)
        IN /\ conversation.current_question_index \in 0..n
           /\ 0 <= progress.num /\ progress.num <= 100 * progress.den
           /\ get_current_question(conversation).isNone
                 <=> is_conversation_complete(conversation)

====
